---- MODULE Spec2Model ----
(***************************************************************************)
(* content-factory / podcast-to-social: the transcript chunker and the     *)
(* rolling summarisation engine of src/podcast-to-social/src/              *)
(* post_generator.py.                                                      *)
(*                                                                         *)
(* Text is kept run-length encoded: a string is a sequence of runs         *)
(* [c |-> character, n |-> repetitions], adjacent runs having different    *)
(* characters and every n >= 1, so that two strings are equal exactly when *)
(* their encodings are equal.  This lets the model keep the program's own  *)
(* CHUNK_SIZE and search window.                                           *)
(***************************************************************************)
EXTENDS Integers, Sequences, FiniteSets, TLC

\* ---------------------------------------------------------------- bounds
\* Raw runs a chunker input is built from.
MaxRuns == 4
\* Words a chunker input made of separated words is built from.
MaxWords == 3
\* Words a summarize_episode input is built from.
MaxSummWords == 3

\* ------------------------------------------------------ program constants
CHUNK_SIZE == 40000
\* remaining.rfind(" ", boundary - 300, boundary + 300)
WINDOW == 300

\* ---------------------------------------------------------------- text
SP == " "
NL == "\n"
\* The characters str.lstrip() and str.split() treat as whitespace, by two
\* representatives: the space, which rfind(" ") looks for, and another one.
Whitespace == {SP, NL}
Chars == {"a", SP, NL}

RECURSIVE Norm(_)
\* The encoding of the string a raw run list spells.
Norm(raw) ==
    IF raw = <<>> THEN <<>>
    ELSE LET t == Norm(Tail(raw))
             h == Head(raw)
         IN  IF h.n = 0 THEN t
             ELSE IF t # <<>> /\ t[1].c = h.c
                  THEN <<[c |-> h.c, n |-> h.n + t[1].n]>> \o Tail(t)
                  ELSE <<h>> \o t

RECURSIVE StrLen(_)
\* len(s)
StrLen(s) == IF s = <<>> THEN 0 ELSE Head(s).n + StrLen(Tail(s))

RECURSIVE Take(_, _)
\* s[:k], k >= 0
Take(s, k) ==
    IF s = <<>> \/ k <= 0 THEN <<>>
    ELSE IF Head(s).n <= k
         THEN <<Head(s)>> \o Take(Tail(s), k - Head(s).n)
         ELSE <<[c |-> Head(s).c, n |-> k]>>

RECURSIVE Drop(_, _)
\* s[k:], k >= 0
Drop(s, k) ==
    IF s = <<>> \/ k <= 0 THEN s
    ELSE IF Head(s).n <= k
         THEN Drop(Tail(s), k - Head(s).n)
         ELSE <<[c |-> Head(s).c, n |-> Head(s).n - k]>> \o Tail(s)

RECURSIVE lstrip(_)
\* s.lstrip()
lstrip(s) ==
    IF s # <<>> /\ Head(s).c \in Whitespace THEN lstrip(Tail(s)) ELSE s

\* Offset of the first character of run j of s.
RunStart(s, j) == StrLen(SubSeq(s, 1, j - 1))

\* s[k], for 0 <= k < len(s)
CharAt(s, k) ==
    LET j == CHOOSE r \in 1..Len(s) : RunStart(s, r) <= k /\ k < RunStart(s, r) + s[r].n
    IN  s[j].c

\* The offsets k with lo <= k < hi, k < len(s) and s[k] = ch, by run: the
\* highest such offset inside each run of ch that meets the range.
LastHits(s, ch, lo, hi) ==
    LET end == IF hi < StrLen(s) THEN hi ELSE StrLen(s)
    IN  { (IF RunStart(s, j) + s[j].n < end THEN RunStart(s, j) + s[j].n ELSE end) - 1 :
            j \in { r \in 1..Len(s) :
                      /\ s[r].c = ch
                      /\ RunStart(s, r) < end
                      /\ RunStart(s, r) + s[r].n > lo } }

\* s.rfind(ch, lo, hi) for one character ch and 0 <= lo: the highest offset
\* of ch in s[lo:hi], or -1.
rfind(s, ch, lo, hi) ==
    LET hits == LastHits(s, ch, lo, hi)
    IN  IF hits = {} THEN -1 ELSE CHOOSE k \in hits : \A m \in hits : m <= k

RECURSIVE SplitFrom(_, _)
\* s.split(): the maximal runs of non-whitespace characters, in order.
\* cur is the word being read.
SplitFrom(s, cur) ==
    IF s = <<>> THEN (IF cur = <<>> THEN <<>> ELSE <<cur>>)
    ELSE IF Head(s).c \in Whitespace
         THEN (IF cur = <<>> THEN <<>> ELSE <<cur>>) \o SplitFrom(Tail(s), <<>>)
         ELSE SplitFrom(Tail(s), Norm(cur \o <<Head(s)>>))

split(s) == SplitFrom(s, <<>>)

RECURSIVE JoinRaw(_)
JoinRaw(parts) ==
    IF parts = <<>> THEN <<>>
    ELSE IF Len(parts) = 1 THEN parts[1]
    ELSE parts[1] \o <<[c |-> SP, n |-> 1]>> \o JoinRaw(Tail(parts))

\* " ".join(parts)
join(parts) == Norm(JoinRaw(parts))

\* ------------------------------------------------------------ chunker
VARIABLES
    transcript,   \* the argument of _chunk_transcript
    remaining,    \* its local: the text not yet chunked
    chunks,       \* its local, and its return value
    split_at,     \* its local: where the current iteration cuts
    c_pc,         \* its position: "start", "loop", "cut", "returned"
    fallbacks     \* history: how often line 156 (no space found) has run

cvars == <<transcript, remaining, chunks, split_at, c_pc, fallbacks>>

\* summarize_episode
VARIABLES
    channel_name,       \* argument
    episode_title,      \* argument
    n,                  \* local: len(chunks)
    i,                  \* local: index of the chunk the loop is at, from 0
    partial_summaries,  \* local: the accumulator
    result,             \* return value: <<>> is None, <<d>> is the dict d
    s_pc,               \* position: "start", "single", "loop", "returned", "raised"
    calls               \* history: every _call made, with what it did

svars == <<channel_name, episode_title, n, i, partial_summaries, result, s_pc, calls>>

\* get_schedule_slots
VARIABLES
    schedule_config,  \* argument: the dict of schedule.yaml
    count,            \* argument
    now_local,        \* local: datetime.now(tz), its wall clock and its fold
    window_dts,       \* local: the working list of window datetimes
    slots,            \* local, and the return value
    slot_i,           \* local i of the loop of line 50
    g_pc              \* position: "start", "loop", "returned"

gvars == <<schedule_config, count, now_local, window_dts, slots, slot_i, g_pc>>

\* add_stagger, applied again and again to its own result
VARIABLES
    utc_datetime_str,  \* the argument of the next call: the last result
    stagger_from,      \* history: the argument of the first call
    stagger_minutes,   \* history: the sum of the minutes of all calls so far
    stagger_calls      \* history: the minutes of each call, in order

avars == <<utc_datetime_str, stagger_from, stagger_minutes, stagger_calls>>

\* cmd_discover, from its loop over the unprocessed videos on
VARIABLES
    unprocessed,         \* local: the videos to process
    dry_run,             \* local: DRY_RUN
    auto_post,           \* local: AUTO_POST
    x_slots,             \* local: the slots of get_schedule_slots
    d_i,                 \* local i of the loop of line 95
    d_pc,                \* position in the iteration, "done" or "raised"
    episode_transcript,  \* local transcript
    thumb_str,           \* local
    summary,             \* local
    x_content,           \* local
    episodes,            \* database: the rows of table episodes
    posts,               \* database: the rows of table posts, in insertion order
    handled,             \* history: how each finished iteration ended
    llm_calls,           \* history: the calls of functions that call the model
    thumbnail_fetches    \* history: the calls of download_thumbnail

dvars == <<unprocessed, dry_run, auto_post, x_slots, d_i, d_pc, episode_transcript, thumb_str,
           summary, x_content, episodes, posts, handled, llm_calls, thumbnail_fetches>>

\* reddit_poster.post_to_subreddits
VARIABLES
    suggested_subreddits,  \* argument: the names the model suggested
    subreddits_config,     \* argument: the allow-list of subreddits.yaml
    targets,               \* local: the result of _allowed_subreddits
    urls,                  \* local: the permalinks of the submissions made
    t_i,                   \* the loop of line 73: how many targets were taken
    rd_pc,                 \* "idle", "start", "submit" or "returned"
    submissions            \* history: the names given to reddit.subreddit(...)

rvars == <<suggested_subreddits, subreddits_config, targets, urls, t_i, rd_pc, submissions>>

\* The commands of main.py, run one after the other on one database
VARIABLES
    clock,              \* which of the instants of the model it is
    commands,           \* how many commands were started
    reddit_configured,  \* environment: reddit_poster.is_configured()
    subreddits_cfg,     \* the allow-list load_config("subreddits.yaml") returns
    pending,            \* run_review's local: the ids of the posts it lists
    r_i,                \* how many of them were handled
    r_pc,               \* "idle", "prompt", "done" or "raised"
    choice,             \* its local: the key typed at the last prompt
    due,                \* cmd_post's local: the ids of the due posts
    p_i,                \* how many of them were handled
    p_pc,               \* "idle", "posting", "done" or "raised"
    adapter_calls       \* history: the calls of post_thread and post_to_subreddits

pvars == <<clock, commands, reddit_configured, subreddits_cfg, pending, r_i, r_pc, choice,
           due, p_i, p_pc, adapter_calls>>

\* The variables of the components other than the chunker and summarize_episode.
xvars == <<gvars, avars, dvars, rvars, pvars>>

vars == <<cvars, svars, xvars>>

\* Inputs, first family: any characters in runs of these lengths, so that
\* run ends fall on 40000, 40299, 40300 and around them.
Lens == {1, 299, 40000}
Runs == [c : Chars, n : Lens]

RECURSIVE RawTexts(_)
\* The raw run lists of at most k runs.
RawTexts(k) ==
    IF k = 0 THEN {<<>>}
    ELSE LET shorter == RawTexts(k - 1)
         IN  shorter \cup { <<r>> \o t : r \in Runs, t \in {u \in shorter : Len(u) = k - 1} }

\* Inputs, second family: words of these lengths, each followed by one
\* whitespace character, so that a word ends right below or right at the
\* window's lower end 39700, or the text is CHUNK_SIZE long with its separator.
WordLens == {1, 39699, 39700, 39999, 40000}
Words == { <<[c |-> "a", n |-> l], [c |-> w, n |-> 1]>> : l \in WordLens, w \in Whitespace }

RECURSIVE WordTexts(_)
\* The raw run lists of at most k separated words.
WordTexts(k) ==
    IF k = 0 THEN {<<>>}
    ELSE { w \o t : w \in Words, t \in WordTexts(k - 1) } \cup WordTexts(k - 1)

Transcripts ==
    { Norm(raw) : raw \in RawTexts(MaxRuns) } \cup { Norm(raw) : raw \in WordTexts(MaxWords) }

\* Mutation: the search also takes the offset boundary + 300.
FindSpace_closed(rem) == rfind(rem, SP, CHUNK_SIZE - WINDOW, CHUNK_SIZE + WINDOW + 1)

\* boundary = CHUNK_SIZE; remaining.rfind(" ", boundary - 300, boundary + 300)
FindSpace(rem) == rfind(rem, SP, CHUNK_SIZE - WINDOW, CHUNK_SIZE + WINDOW)

\* Mutation: the loop stops as soon as the rest fits the target plus the window.
LoopGuard_late(rem) == StrLen(rem) > CHUNK_SIZE + WINDOW

\* Mutation: the loop goes on while the rest is at least the target size.
LoopGuard_atTarget(rem) == StrLen(rem) >= CHUNK_SIZE

\* while-loop guard
LoopGuard(rem) == StrLen(rem) > CHUNK_SIZE

\* if len(transcript) <= CHUNK_SIZE: return [transcript]
IsShort(t) == StrLen(t) <= CHUNK_SIZE

\* split_at after lines 153-156
SplitPoint(rem) ==
    LET found == FindSpace(rem)
    IN  IF found = -1 THEN CHUNK_SIZE ELSE found

\* chunks.append(remaining[:split_at])
CutChunk(rem, at) == Take(rem, at)

\* remaining = remaining[split_at:].lstrip()
CutRest(rem, at) == lstrip(Drop(rem, at))

\* Mutation: the final remainder is forgotten.
AppendRest_dropped(cs, rem) == cs

\* Mutation: the final remainder is appended without the emptiness test.
AppendRest_unguarded(cs, rem) == Append(cs, rem)

\* if remaining: chunks.append(remaining)
AppendRest(cs, rem) == IF rem # <<>> THEN Append(cs, rem) ELSE cs

\* The chunker has not been called.
ChunkerIdle ==
    /\ transcript = <<>>
    /\ remaining = <<>>
    /\ chunks = <<>>
    /\ split_at = 0
    /\ c_pc = "idle"
    /\ fallbacks = 0

\* summarize_episode has not been called.
SummarizerIdle ==
    /\ channel_name = "channel"
    /\ episode_title = "title"
    /\ n = 0
    /\ i = 0
    /\ partial_summaries = <<>>
    /\ result = <<>>
    /\ s_pc = "idle"
    /\ calls = <<>>

\* The scheduler has not been called.
SchedulerIdle ==
    /\ schedule_config = [key \in {} |-> <<>>]
    /\ count = 0
    /\ now_local = [wall |-> 0, fold |-> 0]
    /\ window_dts = <<>>
    /\ slots = <<>>
    /\ slot_i = 0
    /\ g_pc = "idle"

StaggerIdle ==
    /\ utc_datetime_str = <<>>
    /\ stagger_from = <<>>
    /\ stagger_minutes = 0
    /\ stagger_calls = <<>>

\* post_to_subreddits has not been called.
RedditIdle ==
    /\ suggested_subreddits = <<>>
    /\ subreddits_config = <<>>
    /\ targets = <<>>
    /\ urls = <<>>
    /\ t_i = 0
    /\ rd_pc = "idle"
    /\ submissions = <<>>

\* No discovery run is under way.
DiscoverIdle ==
    /\ unprocessed = <<>>
    /\ dry_run = FALSE
    /\ auto_post = FALSE
    /\ x_slots = <<>>
    /\ d_i = 0
    /\ d_pc = "idle"
    /\ episode_transcript = <<>>
    /\ thumb_str = <<>>
    /\ summary = <<>>
    /\ x_content = <<>>
    /\ episodes = {}
    /\ posts = <<>>
    /\ handled = <<>>
    /\ llm_calls = <<>>
    /\ thumbnail_fetches = <<>>

\* No command of the pipeline model has run.
PipelineIdle ==
    /\ clock = 1
    /\ commands = 0
    /\ reddit_configured = FALSE
    /\ subreddits_cfg = <<>>
    /\ pending = <<>>
    /\ r_i = 0
    /\ r_pc = "idle"
    /\ choice = "s"
    /\ due = <<>>
    /\ p_i = 0
    /\ p_pc = "idle"
    /\ adapter_calls = <<>>

CInit ==
    /\ transcript \in Transcripts
    /\ remaining = <<>>
    /\ chunks = <<>>
    /\ split_at = 0
    /\ c_pc = "start"
    /\ fallbacks = 0
    /\ channel_name = "channel"
    /\ episode_title = "title"
    /\ n = 0
    /\ i = 0
    /\ partial_summaries = <<>>
    /\ result = <<>>
    /\ s_pc = "idle"
    /\ calls = <<>>
    /\ SchedulerIdle
    /\ StaggerIdle
    /\ DiscoverIdle
    /\ RedditIdle
    /\ PipelineIdle

\* Mutation: the early return normalises the transcript, [transcript.lstrip()].
ChunkShort_stripped ==
    /\ c_pc = "start"
    /\ StrLen(transcript) <= CHUNK_SIZE
    /\ chunks' = <<lstrip(transcript)>>
    /\ c_pc' = "returned"
    /\ UNCHANGED <<transcript, remaining, split_at, fallbacks>>
    /\ UNCHANGED svars
    /\ UNCHANGED xvars

ChunkShort ==
    /\ c_pc = "start"
    /\ IsShort(transcript)
    /\ chunks' = <<transcript>>
    /\ c_pc' = "returned"
    /\ UNCHANGED <<transcript, remaining, split_at, fallbacks>>
    /\ UNCHANGED svars
    /\ UNCHANGED xvars

ChunkLong ==
    /\ c_pc = "start"
    /\ ~IsShort(transcript)
    /\ chunks' = <<>>
    /\ remaining' = transcript
    /\ c_pc' = "loop"
    /\ UNCHANGED <<transcript, split_at, fallbacks>>
    /\ UNCHANGED svars
    /\ UNCHANGED xvars

ChunkFind ==
    /\ c_pc = "loop"
    /\ LoopGuard(remaining)
    /\ split_at' = SplitPoint(remaining)
    /\ fallbacks' = IF FindSpace(remaining) = -1 THEN fallbacks + 1 ELSE fallbacks
    /\ c_pc' = "cut"
    /\ UNCHANGED <<transcript, remaining, chunks>>
    /\ UNCHANGED svars
    /\ UNCHANGED xvars

ChunkCut ==
    /\ c_pc = "cut"
    /\ chunks' = Append(chunks, CutChunk(remaining, split_at))
    /\ remaining' = CutRest(remaining, split_at)
    /\ c_pc' = "loop"
    /\ UNCHANGED <<transcript, split_at, fallbacks>>
    /\ UNCHANGED svars
    /\ UNCHANGED xvars

ChunkReturn ==
    /\ c_pc = "loop"
    /\ ~LoopGuard(remaining)
    /\ chunks' = AppendRest(chunks, remaining)
    /\ c_pc' = "returned"
    /\ UNCHANGED <<transcript, remaining, split_at, fallbacks>>
    /\ UNCHANGED svars
    /\ UNCHANGED xvars

CNext == ChunkShort \/ ChunkLong \/ ChunkFind \/ ChunkCut \/ ChunkReturn

\* Mutation: the `while` is an `if`, one cut at most.
ChunkLoop_once(rem, cs) ==
    IF LoopGuard(rem)
    THEN AppendRest(Append(cs, CutChunk(rem, SplitPoint(rem))), CutRest(rem, SplitPoint(rem)))
    ELSE AppendRest(cs, rem)

RECURSIVE ChunkLoop(_, _)
\* Lines 151-163 as one function of the loop's state.
ChunkLoop(rem, cs) ==
    IF LoopGuard(rem)
    THEN ChunkLoop(CutRest(rem, SplitPoint(rem)), Append(cs, CutChunk(rem, SplitPoint(rem))))
    ELSE AppendRest(cs, rem)

\* _chunk_transcript(transcript) as a function of its argument.
_chunk_transcript(t) == IF IsShort(t) THEN <<t>> ELSE ChunkLoop(t, <<>>)

\* --------------------------------------------------- model responses
\* A JSON value of a response: a string, a list of strings or a number.
JStr(x) == [kind |-> "str", val |-> x]
JList(x) == [kind |-> "list", val |-> x]
JNum(x) == [kind |-> "num", val |-> x]
JNull == [kind |-> "null", val |-> 0]

\* d.get(key) of a parsed JSON object d (a function from its keys)
get(d, key) == IF key \in DOMAIN d THEN d[key] ELSE JNull

\* Python truth of a JSON value
Truthy(v) ==
    CASE v.kind = "str" -> v.val # ""
      [] v.kind = "list" -> v.val # <<>>
      [] v.kind = "num" -> v.val # 0
      [] OTHER -> FALSE

\* JSON objects a model can answer with.
\* A partial summary with every field.
PartialFull ==
    [section_summary |-> JStr("s1"),
     key_points |-> JList(<<"k1", "k2">>),
     notable_quotes |-> JList(<<"q1">>)]
\* A partial summary with fields missing or empty.
PartialSparse == [section_summary |-> JStr("s2"), key_points |-> JList(<<>>)]
\* The empty object {}.
EmptyObject == [key \in {} |-> JNull]
\* A final summary.
FinalFull ==
    [main_thesis |-> JStr("m"),
     key_insights |-> JList(<<"i1", "i2", "i3", "i4", "i5">>),
     notable_quotes |-> JList(<<"q1">>),
     practical_applications |-> JList(<<"p1", "p2", "p3">>),
     episode_context |-> JStr("c")]
\* An object that is valid JSON but not of the requested shape: the section
\* summary is a list of sentences.
PartialIllTyped == [section_summary |-> JList(<<"s3">>), key_points |-> JList(<<"k3">>)]

\* A JSON document: text json.loads accepts (valid, with its value) or not.
Json(d) == [valid |-> TRUE, value |-> d]
NotJson == [valid |-> FALSE, value |-> EmptyObject]

\* A response text: what stands in its first ``` fence, if it has one, and
\* the whole text.
Plain(j) == [fence |-> <<>>, outer |-> j]
Fenced(j, whole) == [fence |-> <<j>>, outer |-> whole]

ResponseTexts ==
    { Plain(Json(PartialFull)), Plain(Json(FinalFull)), Plain(Json(EmptyObject)),
      Plain(Json(PartialIllTyped)), Plain(NotJson),
      Fenced(Json(PartialSparse), NotJson), Fenced(NotJson, Json(FinalFull)) }

\* What one _call can do: raise, or return a text.
Outcomes ==
    {[raised |-> TRUE, text |-> Plain(NotJson)]}
        \cup { [raised |-> FALSE, text |-> t] : t \in ResponseTexts }

\* json.loads
json_loads(j) == [raised |-> ~j.valid, value |-> j.value]

\* _extract_json(text)
_extract_json(text) ==
    IF text.fence # <<>> THEN json_loads(text.fence[1]) ELSE json_loads(text.outer)

\* The try block `response = _call(...); ... _extract_json(response)`:
\* whether it leaves through except, and the parsed object if not.
TryParse(o) ==
    IF o.raised THEN [raised |-> TRUE, value |-> EmptyObject]
    ELSE _extract_json(o.text)

_chunk_model == "gpt-4o-mini"
_synthesis_model == "gpt-4o"

\* ------------------------------------------------- context formatting
\* The lines of one partial summary s, numbered num.  "  * " stands for the
\* bullet of the source, which is no ASCII character.
SectionLines(s, num) ==
    <<"\n--- Section " \o ToString(num) \o " ---">>
    \o (IF Truthy(get(s, "section_summary")) THEN <<get(s, "section_summary").val>> ELSE <<>>)
    \o (IF Truthy(get(s, "key_points"))
        THEN <<"Key points:">>
             \o [k \in 1..Len(get(s, "key_points").val) |-> "  * " \o get(s, "key_points").val[k]]
        ELSE <<>>)
    \o (IF Truthy(get(s, "notable_quotes"))
        THEN [k \in 1..Len(get(s, "notable_quotes").val) |->
                "  \"" \o get(s, "notable_quotes").val[k] \o "\""]
        ELSE <<>>)

\* Formatting s raises TypeError: a truthy section_summary that is no string
\* cannot be joined, a truthy key_points or notable_quotes that is a number
\* cannot be iterated.
SectionRaises(s) ==
    \/ Truthy(get(s, "section_summary")) /\ get(s, "section_summary").kind # "str"
    \/ Truthy(get(s, "key_points")) /\ get(s, "key_points").kind = "num"
    \/ Truthy(get(s, "notable_quotes")) /\ get(s, "notable_quotes").kind = "num"

RECURSIVE AllSectionLines(_, _)
AllSectionLines(ps, first) ==
    IF ps = <<>> THEN <<>>
    ELSE SectionLines(Head(ps), first) \o AllSectionLines(Tail(ps), first + 1)

\* _format_previous_context(partial_summaries): whether it raises, and the
\* text it returns as the list of lines "\n".join puts together ("" is <<>>).
_format_previous_context(ps) ==
    IF ps = <<>> THEN [raised |-> FALSE, text |-> <<>>]
    ELSE IF \E k \in 1..Len(ps) : SectionRaises(ps[k])
         THEN [raised |-> TRUE, text |-> <<>>]
         ELSE [raised |-> FALSE,
               text |-> <<"SUMMARIES FROM PREVIOUS SECTIONS:">>
                        \o AllSectionLines(ps, 1) \o <<"">>]

\* ------------------------------------------------ summarize_episode
None == <<>>
Some(d) == <<d>>

\* Inputs of summarize_episode: words of these lengths, each followed by a space.
SummWords == { <<[c |-> "a", n |-> l], [c |-> SP, n |-> 1]>> : l \in {1, CHUNK_SIZE} }

RECURSIVE SummTexts(_)
SummTexts(k) ==
    IF k = 0 THEN {<<>>}
    ELSE { w \o t : w \in SummWords, t \in SummTexts(k - 1) } \cup SummTexts(k - 1)

\* The two-hour episode of the module docstring: 96,000 characters.
TWO_HOURS == 96000

\* Inputs of that length: a word, a gap of spaces, a word of the same length,
\* a gap, and letters up to TWO_HOURS.  A gap of 0 joins the words into one;
\* a long gap is what lstrip() removes after a cut.
Words96k == {39999, 40299}
Gaps96k == {0, 1, 16001, 56001}
Layouts96k ==
    { <<w, g1, g2>> \in Words96k \X Gaps96k \X Gaps96k :
        /\ w + g1 <= TWO_HOURS
        /\ (w + g1 + w + g2 <= TWO_HOURS \/ g2 = 0) }

Text96k(l) ==
    LET w2 == IF l[1] + l[2] + l[1] + l[3] <= TWO_HOURS THEN l[1] ELSE 0
    IN  Norm(<<[c |-> "a", n |-> l[1]], [c |-> SP, n |-> l[2]],
               [c |-> "a", n |-> w2], [c |-> SP, n |-> IF w2 = 0 THEN 0 ELSE l[3]],
               [c |-> "a", n |-> TWO_HOURS - l[1] - l[2] - w2 - (IF w2 = 0 THEN 0 ELSE l[3])]>>)

Texts96k == { Text96k(l) : l \in Layouts96k }

\* Non-empty: the only caller skips an episode without content (main.py 103-105).
SummTranscripts ==
    ({ Norm(raw) : raw \in SummTexts(MaxSummWords) } \ {<<>>}) \cup Texts96k

\* _SINGLE_PASS_PROMPT.format(...)
SinglePassPrompt(cn, et, t) ==
    [template |-> "_SINGLE_PASS_PROMPT", channel_name |-> cn, episode_title |-> et,
     transcript |-> t]

\* Mutation: only the most recent partial summary is carried forward.
PreviousContext_lastOnly(ps) ==
    _format_previous_context(IF ps = <<>> THEN ps ELSE <<ps[Len(ps)]>>)

\* previous_context = _format_previous_context(partial_summaries)
PreviousContext(ps) == _format_previous_context(ps)

\* _CHUNK_PROMPT.format(...)
ChunkPrompt(cn, et, k, total, context, chunk) ==
    [template |-> "_CHUNK_PROMPT", chunk_num |-> k, total_chunks |-> total,
     channel_name |-> cn, episode_title |-> et,
     previous_context |-> context, chunk |-> chunk]

\* _SYNTHESIS_PROMPT.format(...)
SynthesisPrompt(cn, et, all) ==
    [template |-> "_SYNTHESIS_PROMPT", channel_name |-> cn, episode_title |-> et,
     all_summaries |-> all]

\* One _call(prompt, model, max_tokens) and what came of it.
Call(model, max_tokens, prompt, o) ==
    [model |-> model, max_tokens |-> max_tokens, prompt |-> prompt, outcome |-> o]

\* return _extract_json(response) / except: return None
ReturnOf(o) == IF TryParse(o).raised THEN None ELSE Some(TryParse(o).value)

\* partial_summaries.append(_extract_json(response)) / except: keep going
Accumulate(ps, o) == IF TryParse(o).raised THEN ps ELSE Append(ps, TryParse(o).value)

SInit ==
    /\ transcript \in SummTranscripts
    /\ remaining = <<>>
    /\ chunks = <<>>
    /\ split_at = 0
    /\ c_pc = "idle"
    /\ fallbacks = 0
    /\ channel_name = "channel"
    /\ episode_title = "title"
    /\ n = 0
    /\ i = 0
    /\ partial_summaries = <<>>
    /\ result = None
    /\ s_pc = "start"
    /\ calls = <<>>
    /\ SchedulerIdle
    /\ StaggerIdle
    /\ DiscoverIdle
    /\ RedditIdle
    /\ PipelineIdle

\* lines 247-252, 267
Chunk ==
    /\ s_pc = "start"
    /\ chunks' = _chunk_transcript(transcript)
    /\ n' = Len(chunks')
    /\ s_pc' = IF n' = 1 THEN "single" ELSE "loop"
    /\ partial_summaries' = <<>>
    /\ i' = 0
    /\ UNCHANGED <<transcript, remaining, split_at, c_pc, fallbacks,
                   channel_name, episode_title, result, calls>>
    /\ UNCHANGED xvars

\* Mutation: the single pass is made on the chunk, not on the transcript.
SinglePass_onChunk ==
    /\ s_pc = "single"
    /\ \E o \in Outcomes :
         /\ calls' = Append(calls, Call(_synthesis_model, 1500,
                        SinglePassPrompt(channel_name, episode_title, chunks[1]), o))
         /\ result' = ReturnOf(o)
    /\ s_pc' = "returned"
    /\ UNCHANGED <<cvars, channel_name, episode_title, n, i, partial_summaries>>
    /\ UNCHANGED xvars

\* lines 252-264
SinglePass ==
    /\ s_pc = "single"
    /\ \E o \in Outcomes :
         /\ calls' = Append(calls, Call(_synthesis_model, 1500,
                        SinglePassPrompt(channel_name, episode_title, transcript), o))
         /\ result' = ReturnOf(o)
    /\ s_pc' = "returned"
    /\ UNCHANGED <<cvars, channel_name, episode_title, n, i, partial_summaries>>
    /\ UNCHANGED xvars

\* lines 269-286, one iteration, when building the context does not raise
ChunkStep ==
    /\ s_pc = "loop"
    /\ i < n
    /\ ~PreviousContext(partial_summaries).raised
    /\ \E o \in Outcomes :
         /\ calls' = Append(calls, Call(_chunk_model, 1000,
                        ChunkPrompt(channel_name, episode_title, i + 1, n,
                                    PreviousContext(partial_summaries).text, chunks[i + 1]), o))
         /\ partial_summaries' = Accumulate(partial_summaries, o)
    /\ i' = i + 1
    /\ UNCHANGED <<cvars, channel_name, episode_title, n, result, s_pc>>
    /\ UNCHANGED xvars

\* line 271 raising: the exception leaves summarize_episode
ChunkContextRaises ==
    /\ s_pc = "loop"
    /\ i < n
    /\ PreviousContext(partial_summaries).raised
    /\ s_pc' = "raised"
    /\ UNCHANGED <<cvars, channel_name, episode_title, n, i, partial_summaries, result, calls>>
    /\ UNCHANGED xvars

\* lines 288-290
AllChunksFailed ==
    /\ s_pc = "loop"
    /\ i = n
    /\ partial_summaries = <<>>
    /\ result' = None
    /\ s_pc' = "returned"
    /\ UNCHANGED <<cvars, channel_name, episode_title, n, i, partial_summaries, calls>>
    /\ UNCHANGED xvars

\* Mutation: the test `if not partial_summaries` is gone.
Synthesis_unguarded ==
    /\ s_pc = "loop"
    /\ i = n
    /\ \E o \in Outcomes :
         /\ calls' = Append(calls, Call(_synthesis_model, 2000,
                        SynthesisPrompt(channel_name, episode_title,
                                        _format_previous_context(partial_summaries).text), o))
         /\ result' = ReturnOf(o)
    /\ s_pc' = "returned"
    /\ UNCHANGED <<cvars, channel_name, episode_title, n, i, partial_summaries>>
    /\ UNCHANGED xvars

\* lines 293-306, when rendering the summaries does not raise
Synthesis ==
    /\ s_pc = "loop"
    /\ i = n
    /\ partial_summaries # <<>>
    /\ ~_format_previous_context(partial_summaries).raised
    /\ \E o \in Outcomes :
         /\ calls' = Append(calls, Call(_synthesis_model, 2000,
                        SynthesisPrompt(channel_name, episode_title,
                                        _format_previous_context(partial_summaries).text), o))
         /\ result' = ReturnOf(o)
    /\ s_pc' = "returned"
    /\ UNCHANGED <<cvars, channel_name, episode_title, n, i, partial_summaries>>
    /\ UNCHANGED xvars

\* line 294 raising
SynthesisContextRaises ==
    /\ s_pc = "loop"
    /\ i = n
    /\ partial_summaries # <<>>
    /\ _format_previous_context(partial_summaries).raised
    /\ s_pc' = "raised"
    /\ UNCHANGED <<cvars, channel_name, episode_title, n, i, partial_summaries, result, calls>>
    /\ UNCHANGED xvars

SNext ==
    \/ Chunk
    \/ SinglePass
    \/ ChunkStep
    \/ ChunkContextRaises
    \/ AllChunksFailed
    \/ Synthesis
    \/ SynthesisContextRaises

\* ------------------------------------------------------------ calendar
\* datetime.date as the record of its fields.
Date(y, m, d) == [year |-> y, month |-> m, day |-> d]

IsLeap(y) == (y % 4 = 0 /\ y % 100 # 0) \/ y % 400 = 0

DaysInMonth(y, m) ==
    IF m = 2 THEN (IF IsLeap(y) THEN 29 ELSE 28)
    ELSE IF m \in {4, 6, 9, 11} THEN 30 ELSE 31

\* Days before 1 January of year y, counted from 1 January of year 1.
DaysBeforeYear(y) ==
    (y - 1) * 365 + ((y - 1) \div 4) - ((y - 1) \div 100) + ((y - 1) \div 400)

\* Days of year y before the first of month m.
DaysBeforeMonth(y, m) ==
    <<0, 31, 59, 90, 120, 151, 181, 212, 243, 273, 304, 334>>[m]
        + (IF m > 2 /\ IsLeap(y) THEN 1 ELSE 0)

\* date.toordinal()
toordinal(d) == DaysBeforeYear(d.year) + DaysBeforeMonth(d.year, d.month) + d.day

RECURSIVE YearOfOrdinal(_, _)
\* The year ordinal o lies in, searched from year y.
YearOfOrdinal(o, y) ==
    IF o <= DaysBeforeYear(y) THEN YearOfOrdinal(o, y - 1)
    ELSE IF o > DaysBeforeYear(y + 1) THEN YearOfOrdinal(o, y + 1)
    ELSE y

\* The month the d-th day of year y lies in.
MonthOfDay(d, y) ==
    CHOOSE m \in 1..12 : DaysBeforeMonth(y, m) < d /\ d <= DaysBeforeMonth(y, m) + DaysInMonth(y, m)

\* date.fromordinal(o)
fromordinal(o) ==
    LET y == YearOfOrdinal(o, 2024)
        d == o - DaysBeforeYear(y)
        m == MonthOfDay(d, y)
    IN  Date(y, m, d - DaysBeforeMonth(y, m))

\* A datetime without its zone is the number of seconds of its wall clock
\* since 2024-01-01 00:00:00; microseconds are left out (a window has none,
\* and `dt > now_local` does not depend on those of now_local but when the
\* seconds are equal, where a window counts as passed either way).
EPOCH == Date(2024, 1, 1)
DAY == 24 * 3600

\* datetime(year, month, day, hour, minute, second)
datetime(d, h, mi, sec) == (toordinal(d) - toordinal(EPOCH)) * DAY + h * 3600 + mi * 60 + sec

\* dt.date()
date_of(t) == fromordinal(toordinal(EPOCH) + (t \div DAY))

\* timedelta(minutes=m)
timedelta_minutes(m) == m * 60

\* today + timedelta(days=1)
NextDay(d) == fromordinal(toordinal(d) + 1)

\* dt.strftime("%Y-%m-%dT%H:%M:%SZ"): the text, as the record of its six fields.
strftime(t) ==
    [year |-> date_of(t).year, month |-> date_of(t).month, day |-> date_of(t).day,
     hour |-> (t % DAY) \div 3600, minute |-> (t % 3600) \div 60, second |-> t % 60]

\* datetime.strptime(text, "%Y-%m-%dT%H:%M:%SZ")
strptime(text) ==
    datetime(Date(text.year, text.month, text.day), text.hour, text.minute, text.second)

\* ------------------------------------------------------------ time zones
\* ZoneInfo(tz_name) for the two zones of the model, by the tz database's
\* rules of 2024: New York is on daylight time from 10 March 02:00 (clocks
\* go to 03:00) to 3 November 02:00 (clocks go back to 01:00).
NEW_YORK == "America/New_York"
UTC == "UTC"
EST == 0 - 5 * 3600
EDT == 0 - 4 * 3600
DstStart == datetime(Date(2024, 3, 10), 2, 0, 0)
DstEnd == datetime(Date(2024, 11, 3), 2, 0, 0)

\* The wall clock time does not exist: the hour daylight time skips.
IsGap(tz, wall) == tz = NEW_YORK /\ DstStart <= wall /\ wall < DstStart + 3600

\* The wall clock time happens twice: the hour standard time repeats.
IsAmbiguous(tz, wall) == tz = NEW_YORK /\ DstEnd - 3600 <= wall /\ wall < DstEnd

\* dt.utcoffset(), in seconds, of the wall clock time `wall` with fold
\* `fold` in zone tz (PEP 495: fold 0 is the offset before the transition in
\* a gap, and the first of the two occurrences of a repeated time).
utcoffset(tz, wall, fold) ==
    IF tz = UTC THEN 0
    ELSE IF wall < DstStart THEN EST
    ELSE IF wall < DstStart + 3600 THEN (IF fold = 0 THEN EST ELSE EDT)
    ELSE IF wall < DstEnd - 3600 THEN EDT
    ELSE IF wall < DstEnd THEN (IF fold = 0 THEN EDT ELSE EST)
    ELSE EST

\* dt.astimezone(utc) of a datetime built by datetime(...) or by adding a
\* timedelta: its fold is 0.
astimezone_utc(tz, wall) == wall - utcoffset(tz, wall, 0)

\* ------------------------------------------------- get_schedule_slots
\* Loop iterations get_schedule_slots is asked for at most.
MaxCount == 5
\* Posting windows a configuration lists at most (the default list aside).
MaxWindows == 2

\* A posting window "HH:MM" as what map(int, w.split(":")) makes of it.
DEFAULT_TIMEZONE == NEW_YORK
DEFAULT_WINDOWS == << <<9, 0>>, <<12, 0>>, <<17, 0>>, <<19, 0>> >>

\* dict.get(key, default)
config_get(cfg, key, default) == IF key \in DOMAIN cfg THEN cfg[key] ELSE default

\* Windows of the configurations: in the hour New York repeats, in the hour
\* it skips and right after it, and five minutes apart.
WindowPool == { <<1, 45>>, <<2, 30>>, <<3, 0>>, <<9, 0>>, <<9, 5>> }

RECURSIVE WindowLists(_)
\* The non-empty lists of at most k windows of the pool.
WindowLists(k) ==
    IF k = 1 THEN { <<w>> : w \in WindowPool }
    ELSE WindowLists(k - 1)
            \cup { <<w>> \o l : w \in WindowPool, l \in {u \in WindowLists(k - 1) : Len(u) = k - 1} }

\* schedule.yaml: without the two keys, or with both.
Configs ==
    {[key \in {} |-> <<>>]}
        \cup [timezone : {NEW_YORK, UTC}, posting_windows : WindowLists(MaxWindows)]

TimezoneOf(cfg) == config_get(cfg, "timezone", DEFAULT_TIMEZONE)
WindowsOf(cfg) == config_get(cfg, "posting_windows", DEFAULT_WINDOWS)

\* datetime.now(tz): days around the changes of the clock and the end of
\* the year, times around the windows.  A wall clock time the zone skips
\* never is now; fold 1 is the second occurrence of a repeated time.
NowDays == { Date(2024, 3, 10), Date(2024, 11, 3), Date(2024, 12, 31) }
NowTimes == { <<1, 30, 0>>, <<8, 59, 59>>, <<9, 0, 0>>, <<23, 59, 30>> }
Nows(tz) ==
    { now \in [wall : { datetime(d, t[1], t[2], t[3]) : d \in NowDays, t \in NowTimes },
               fold : {0, 1}] :
        /\ ~IsGap(tz, now.wall)
        /\ now.fold = 1 => IsAmbiguous(tz, now.wall) }

\* Mutation: a window at the call time itself is kept.
IsFuture_orNow(dt, now) == dt >= now.wall

\* dt > now_local: both carry the same tzinfo, so the wall clocks are compared.
IsFuture(dt, now) == dt > now.wall

\* Mutation: the windows still ahead are kept last to first.
TodayWindows_reversed(cfg, now) ==
    LET today == date_of(now.wall)
        ws == WindowsOf(cfg)
        all == [k \in 1..Len(ws) |->
                   datetime(today, ws[Len(ws) + 1 - k][1], ws[Len(ws) + 1 - k][2], 0)]
    IN  SelectSeq(all, LAMBDA dt : IsFuture(dt, now))

\* lines 29-37: today's occurrence of each window that is still ahead
TodayWindows(cfg, now) ==
    LET today == date_of(now.wall)
        ws == WindowsOf(cfg)
        all == [k \in 1..Len(ws) |-> datetime(today, ws[k][1], ws[k][2], 0)]
    IN  SelectSeq(all, LAMBDA dt : IsFuture(dt, now))

\* Mutation: tomorrow's occurrence of every window.
TomorrowWindows_all(cfg, now) ==
    LET tomorrow == NextDay(date_of(now.wall))
        ws == WindowsOf(cfg)
    IN  [k \in 1..Len(ws) |-> datetime(tomorrow, ws[k][1], ws[k][2], 0)]

\* lines 41-45
TomorrowWindows(cfg, now) ==
    LET tomorrow == NextDay(date_of(now.wall))
        ws == WindowsOf(cfg)
    IN  <<datetime(tomorrow, ws[1][1], ws[1][2], 0)>>

\* Mutation: every lap after the first is spaced by the same 5 minutes.
LapOffset_flat(overflow) == timedelta_minutes(5)

\* timedelta(minutes=overflow * 5)
LapOffset(overflow) == timedelta_minutes(overflow * 5)

\* lines 51-56: the slot of iteration k (from 0) over the working list wdts
SlotOf(tz, wdts, k) ==
    LET window == wdts[(k % Len(wdts)) + 1]
        overflow == k \div Len(wdts)
    IN  strftime(astimezone_utc(tz, IF overflow > 0 THEN window + LapOffset(overflow)
                                                    ELSE window))

GInit ==
    /\ schedule_config \in Configs
    /\ count \in 0..MaxCount
    /\ now_local \in Nows(TimezoneOf(schedule_config))
    /\ window_dts = <<>>
    /\ slots = <<>>
    /\ slot_i = 0
    /\ g_pc = "start"
    /\ ChunkerIdle
    /\ SummarizerIdle
    /\ StaggerIdle
    /\ DiscoverIdle
    /\ RedditIdle
    /\ PipelineIdle

\* lines 24-37, 47-48, when a window of today is still ahead
WindowsToday ==
    /\ g_pc = "start"
    /\ TodayWindows(schedule_config, now_local) # <<>>
    /\ window_dts' = TodayWindows(schedule_config, now_local)
    /\ slots' = <<>>
    /\ slot_i' = 0
    /\ g_pc' = "loop"
    /\ UNCHANGED <<schedule_config, count, now_local>>
    /\ UNCHANGED <<cvars, svars, avars, dvars, rvars, pvars>>

\* lines 24-48, when every window has passed
WindowsTomorrow ==
    /\ g_pc = "start"
    /\ TodayWindows(schedule_config, now_local) = <<>>
    /\ window_dts' = TomorrowWindows(schedule_config, now_local)
    /\ slots' = <<>>
    /\ slot_i' = 0
    /\ g_pc' = "loop"
    /\ UNCHANGED <<schedule_config, count, now_local>>
    /\ UNCHANGED <<cvars, svars, avars, dvars, rvars, pvars>>

\* lines 50-56, one iteration
SlotStep ==
    /\ g_pc = "loop"
    /\ slot_i < count
    /\ slots' = Append(slots, SlotOf(TimezoneOf(schedule_config), window_dts, slot_i))
    /\ slot_i' = slot_i + 1
    /\ UNCHANGED <<schedule_config, count, now_local, window_dts, g_pc>>
    /\ UNCHANGED <<cvars, svars, avars, dvars, rvars, pvars>>

\* line 58
SlotsReturn ==
    /\ g_pc = "loop"
    /\ slot_i = count
    /\ g_pc' = "returned"
    /\ UNCHANGED <<schedule_config, count, now_local, window_dts, slots, slot_i>>
    /\ UNCHANGED <<cvars, svars, avars, dvars, rvars, pvars>>

GNext == WindowsToday \/ WindowsTomorrow \/ SlotStep \/ SlotsReturn

\* ------------------------------------------------------------ add_stagger
\* Calls of add_stagger made in a row at most.
MaxStaggers == 2

\* Mutation: the minutes are added to the time of day, the date stays.
add_stagger_sameDay(text, minutes) ==
    LET t == strptime(text)
    IN  strftime((t \div DAY) * DAY + ((t + timedelta_minutes(minutes)) % DAY))

\* add_stagger(utc_datetime_str, minutes); the zone the datetime is given is
\* UTC, whose offset is 0 at every time.
add_stagger(text, minutes) == strftime(strptime(text) + timedelta_minutes(minutes))

\* Timestamps "YYYY-MM-DDTHH:MM:SSZ" add_stagger is given.
Stamp(d, h, mi, sec) ==
    [year |-> d.year, month |-> d.month, day |-> d.day,
     hour |-> h, minute |-> mi, second |-> sec]
StampDays == { Date(2024, 1, 1), Date(2024, 2, 28), Date(2024, 12, 31), Date(2025, 2, 28) }
StampTimes == { <<14, 0, 0>>, <<23, 45, 30>>, <<0, 10, 59>> }
Stamps == { Stamp(d, t[1], t[2], t[3]) : d \in StampDays, t \in StampTimes }

\* reddit_stagger_minutes: the default 30, and others.
StaggerMinutes == { 0, 30, 45, 1440, 0 - 30 }

AInit ==
    /\ utc_datetime_str \in Stamps
    /\ stagger_from = utc_datetime_str
    /\ stagger_minutes = 0
    /\ stagger_calls = <<>>
    /\ ChunkerIdle
    /\ SummarizerIdle
    /\ SchedulerIdle
    /\ DiscoverIdle
    /\ RedditIdle
    /\ PipelineIdle

\* reddit_slot = scheduler.add_stagger(x_slot, reddit_stagger), on its own result
AddStagger ==
    /\ Len(stagger_calls) < MaxStaggers
    /\ \E m \in StaggerMinutes :
         /\ utc_datetime_str' = add_stagger(utc_datetime_str, m)
         /\ stagger_minutes' = stagger_minutes + m
         /\ stagger_calls' = Append(stagger_calls, m)
    /\ UNCHANGED stagger_from
    /\ UNCHANGED <<cvars, svars, gvars, dvars, rvars, pvars>>

ANext == AddStagger

\* ------------------------------------------------------- cmd_discover
\* Episodes one discovery run has to process at most.
MaxEpisodes == 2

RECURSIVE rstrip(_)
\* s.rstrip()
rstrip(s) ==
    IF s # <<>> /\ s[Len(s)].c \in Whitespace THEN rstrip(SubSeq(s, 1, Len(s) - 1)) ELSE s

\* s.strip()
strip(s) == rstrip(lstrip(s))

\* Texts of an episode: a transcript, a description.
SomeWords == Norm(<<[c |-> "a", n |-> 3], [c |-> SP, n |-> 1], [c |-> "a", n |-> 2]>>)
Blank == Norm(<<[c |-> SP, n |-> 2], [c |-> NL, n |-> 1]>>)
Padded == Norm(<<[c |-> NL, n |-> 1], [c |-> "a", n |-> 4], [c |-> SP, n |-> 1]>>)

\* What get_transcript returns for a video, None or a stripped text, and
\* the description youtube_monitor gave it.
VideoKinds ==
    { [transcript |-> Some(SomeWords), description |-> <<>>],
      [transcript |-> None, description |-> Padded],
      [transcript |-> None, description |-> Blank],
      [transcript |-> None, description |-> <<>>],
      [transcript |-> Some(<<>>), description |-> <<>>] }

\* A video of the list: its kind and its place in the list as its video_id.
Video(kind, id) ==
    [video_id |-> id, transcript |-> kind.transcript, description |-> kind.description]

RECURSIVE VideoLists(_)
\* The non-empty lists of at most k videos, with video_id 1, 2, ...
VideoLists(k) ==
    IF k = 1 THEN { <<Video(kind, 1)>> : kind \in VideoKinds }
    ELSE VideoLists(k - 1)
            \cup { Append(l, Video(kind, k)) :
                     kind \in VideoKinds, l \in {u \in VideoLists(k - 1) : Len(u) = k - 1} }

\* download_thumbnail: a path, None when no resolution could be fetched
\* (requests.RequestException is caught), or an OSError of mkdir or
\* write_bytes, which it does not catch.
ThumbnailOutcomes ==
    { [raised |-> FALSE, path |-> Some("thumb.jpg")],
      [raised |-> FALSE, path |-> None],
      [raised |-> TRUE, path |-> None] }

\* A final summary with one field only.
FinalSparse == [main_thesis |-> JStr("m2")]

\* summarize_episode: a summary, the empty object, None, or the TypeError of
\* _format_previous_context (s_pc = "raised" in SpecSumm).
SummaryOutcomes ==
    { [raised |-> FALSE, value |-> Some(FinalFull)],
      [raised |-> FALSE, value |-> Some(FinalSparse)],
      [raised |-> FALSE, value |-> Some(EmptyObject)],
      [raised |-> FALSE, value |-> None],
      [raised |-> TRUE, value |-> None] }

\* The line of item k of a list of _summary_to_text: numbered ("  1. x"),
\* quoted ("  \"x\"") or dashed ("  - x").
ItemLine(style, k, item) ==
    CASE style = "numbered" -> "  " \o ToString(k) \o ". " \o item
      [] style = "quoted" -> "  \"" \o item \o "\""
      [] style = "dashed" -> "  - " \o item

\* The items of a JSON list under a label line, with a closing empty line;
\* nothing when the field is missing or empty.
ListBlock(d, key, label, style) ==
    IF Truthy(get(d, key))
    THEN <<label>>
         \o [k \in 1..Len(get(d, key).val) |-> ItemLine(style, k, get(d, key).val[k])]
         \o <<"">>
    ELSE <<>>

RECURSIVE StripLines(_)
\* str.strip() of a text given as its lines, the values being no blanks: the
\* empty lines at its end go (no text of _summary_to_text begins with one).
StripLines(lines) ==
    IF lines # <<>> /\ lines[Len(lines)] = ""
    THEN StripLines(SubSeq(lines, 1, Len(lines) - 1))
    ELSE lines

\* _summary_to_text(summary), as the lines of the text it returns
_summary_to_text(d) ==
    StripLines(
        (IF Truthy(get(d, "main_thesis"))
         THEN <<"MAIN ARGUMENT:", get(d, "main_thesis").val, "">> ELSE <<>>)
        \o ListBlock(d, "key_insights", "KEY INSIGHTS:", "numbered")
        \o ListBlock(d, "notable_quotes", "NOTABLE QUOTES:", "quoted")
        \o ListBlock(d, "practical_applications", "PRACTICAL APPLICATIONS:", "dashed")
        \o (IF Truthy(get(d, "episode_context"))
            THEN <<"CONTEXT:", get(d, "episode_context").val>> ELSE <<>>))

\* Mutation: the post prompt is filled with the episode's transcript.
PostInput_raw(tr, sm) == tr

\* generate_x_post(..., summary=summary): what fills the template's
\* {{transcript}} is the text of the summary.
PostInput(tr, sm) == _summary_to_text(sm)

\* _fill(_load_prompt("x_post.md"), channel_name, episode_title, transcript)
XPostPrompt(cn, et, text) ==
    [template |-> "x_post.md", channel_name |-> cn, episode_title |-> et, transcript |-> text]

\* generate_x_post: the parsed thread, or None (every exception is caught).
XThread == [tweets |-> JList(<<"t1", "t2">>)]
\* The model's JSON is saved as it parses: a thread may have no tweets.
XEmptyThread == [tweets |-> JList(<<>>)]
XPostOutcomes == { Some(XThread), Some(XEmptyThread), None }

\* A write to the database: done, or psycopg2 raises (nothing catches it).
DbOutcomes == {"ok", "error"}

\* Python truth of an Optional dict or text: None and the empty one are false.
TruthyOpt(o) == o # None /\ o[1] # <<>> /\ o[1] # EmptyObject

\* The function get_schedule_slots computes, as a function of its inputs.
get_schedule_slots(cnt, cfg, now) ==
    LET today == TodayWindows(cfg, now)
        wdts == IF today # <<>> THEN today ELSE TomorrowWindows(cfg, now)
    IN  [k \in 1..cnt |-> SlotOf(TimezoneOf(cfg), wdts, k - 1)]

\* Mutation: the description is used as it is.
FallbackText_unstripped(video) == video.description

\* video.get("description", "").strip()
FallbackText(video) == strip(video.description)

\* lines 99-102: the text the episode is processed with
ContentOf(video) ==
    IF TruthyOpt(video.transcript) THEN video.transcript[1] ELSE FallbackText(video)

\* The run starts at line 94: `unprocessed` is not empty (line 83) and the
\* slots were computed for it, here with the default schedule on a morning.
DInit ==
    /\ unprocessed \in VideoLists(MaxEpisodes)
    /\ dry_run \in BOOLEAN
    /\ auto_post \in BOOLEAN
    /\ x_slots = get_schedule_slots(Len(unprocessed), [key \in {} |-> <<>>],
                                    [wall |-> datetime(Date(2024, 12, 31), 8, 59, 59), fold |-> 0])
    /\ d_i = 0
    /\ d_pc = "transcript"
    /\ episode_transcript = <<>>
    /\ thumb_str = None
    /\ summary = None
    /\ x_content = None
    /\ episodes = {}
    /\ posts = <<>>
    /\ handled = <<>>
    /\ llm_calls = <<>>
    /\ thumbnail_fetches = <<>>
    /\ ChunkerIdle
    /\ SummarizerIdle
    /\ SchedulerIdle
    /\ StaggerIdle
    /\ RedditIdle
    /\ PipelineIdle

\* The video of the current iteration.
CurrentVideo == unprocessed[d_i + 1]

\* d_pc after the current iteration: the next video, or line 187.
AfterEpisode == IF d_i + 1 < Len(unprocessed) THEN "transcript" ELSE "done"

\* lines 95-105, when neither transcript nor description has text: continue
SkipNoContent ==
    /\ d_pc = "transcript"
    /\ ContentOf(CurrentVideo) = <<>>
    /\ handled' = Append(handled, "No content available, skipping")
    /\ d_i' = d_i + 1
    /\ d_pc' = AfterEpisode
    /\ UNCHANGED <<unprocessed, dry_run, auto_post, x_slots, episode_transcript, thumb_str,
                   summary, x_content, episodes, posts, llm_calls, thumbnail_fetches>>
    /\ UNCHANGED <<cvars, svars, gvars, avars, rvars, pvars>>

\* lines 95-105, when there is text
TakeTranscript ==
    /\ d_pc = "transcript"
    /\ ContentOf(CurrentVideo) # <<>>
    /\ episode_transcript' = ContentOf(CurrentVideo)
    /\ d_pc' = "thumbnail"
    /\ UNCHANGED <<unprocessed, dry_run, auto_post, x_slots, d_i, thumb_str, summary,
                   x_content, episodes, posts, handled, llm_calls, thumbnail_fetches>>
    /\ UNCHANGED <<cvars, svars, gvars, avars, rvars, pvars>>

\* lines 108-111
FetchThumbnail ==
    /\ d_pc = "thumbnail"
    /\ thumbnail_fetches' = Append(thumbnail_fetches, CurrentVideo.video_id)
    /\ \E o \in ThumbnailOutcomes :
         /\ thumb_str' = IF o.raised THEN thumb_str ELSE o.path
         /\ d_pc' = IF o.raised THEN "raised" ELSE "summarise"
    /\ UNCHANGED <<unprocessed, dry_run, auto_post, x_slots, d_i, episode_transcript, summary,
                   x_content, episodes, posts, handled, llm_calls>>
    /\ UNCHANGED <<cvars, svars, gvars, avars, rvars, pvars>>

\* lines 115-122
Summarise ==
    /\ d_pc = "summarise"
    /\ llm_calls' = Append(llm_calls, [video_id |-> CurrentVideo.video_id,
                                       by |-> "summarize_episode",
                                       transcript |-> episode_transcript,
                                       summary |-> None,
                                       prompt |-> None])
    /\ \E o \in SummaryOutcomes :
         IF o.raised
         THEN /\ d_pc' = "raised"
              /\ UNCHANGED <<summary, handled, d_i>>
         ELSE IF ~TruthyOpt(o.value)
         THEN /\ summary' = o.value
              /\ handled' = Append(handled, "Summarisation failed, skipping")
              /\ d_i' = d_i + 1
              /\ d_pc' = AfterEpisode
         ELSE /\ summary' = o.value
              /\ d_pc' = "save_episode"
              /\ UNCHANGED <<handled, d_i>>
    /\ UNCHANGED <<unprocessed, dry_run, auto_post, x_slots, episode_transcript, thumb_str,
                   x_content, episodes, posts, thumbnail_fetches>>
    /\ UNCHANGED <<cvars, svars, gvars, avars, rvars, pvars>>

\* db.is_episode_processed(video_id): SELECT 1 FROM episodes WHERE video_id = %s
is_episode_processed(table, id) == \E r \in table : r.video_id = id

\* db.save_episode: INSERT ... ON CONFLICT (video_id) DO UPDATE
Upsert(table, row) == {r \in table : r.video_id # row.video_id} \cup {row}

\* Mutation: a dry run writes as any other run.
Writes_always(dry) == TRUE

\* `if not dry_run:` of lines 127 and 148
Writes(dry) == ~dry

\* lines 124-136
SaveEpisode ==
    /\ d_pc = "save_episode"
    /\ IF ~Writes(dry_run)
       THEN /\ d_pc' = "x_post"
            /\ UNCHANGED episodes
       ELSE \E o \in DbOutcomes :
              IF o = "ok"
              THEN /\ episodes' = Upsert(episodes, [video_id |-> CurrentVideo.video_id,
                                                    thumbnail_path |-> thumb_str,
                                                    transcript |-> summary[1]])
                   /\ d_pc' = "x_post"
              ELSE /\ d_pc' = "raised"
                   /\ UNCHANGED episodes
    /\ UNCHANGED <<unprocessed, dry_run, auto_post, x_slots, d_i, episode_transcript, thumb_str,
                   summary, x_content, posts, handled, llm_calls, thumbnail_fetches>>
    /\ UNCHANGED <<cvars, svars, gvars, avars, rvars, pvars>>

\* lines 138-147
GenerateX ==
    /\ d_pc = "x_post"
    /\ llm_calls' = Append(llm_calls,
          [video_id |-> CurrentVideo.video_id,
           by |-> "generate_x_post",
           transcript |-> episode_transcript,
           summary |-> summary,
           prompt |-> Some(XPostPrompt(channel_name, episode_title,
                                       PostInput(episode_transcript, summary[1])))])
    /\ \E o \in XPostOutcomes : x_content' = o
    /\ d_pc' = "save_post"
    /\ UNCHANGED <<unprocessed, dry_run, auto_post, x_slots, d_i, episode_transcript, thumb_str,
                   summary, episodes, posts, handled, thumbnail_fetches>>
    /\ UNCHANGED <<cvars, svars, gvars, avars, rvars, pvars>>

\* db.save_post's row
PostRow(video, content, thumbnail, slot, approve) ==
    [video_id |-> video.video_id, platform |-> "x", content |-> content,
     thumbnail_path |-> thumbnail, scheduled_at |-> slot,
     status |-> IF approve THEN "approved" ELSE "pending",
     post_url |-> None, error |-> None, posted_at |-> None]

\* lines 148-161, and the end of the iteration
SavePost ==
    /\ d_pc = "save_post"
    /\ IF TruthyOpt(x_content) /\ Writes(dry_run)
       THEN \E o \in DbOutcomes :
              IF o = "ok"
              THEN /\ posts' = Append(posts, PostRow(CurrentVideo, x_content[1], thumb_str,
                                                     x_slots[d_i + 1], auto_post))
                   /\ handled' = Append(handled, "X post queued")
                   /\ d_i' = d_i + 1
                   /\ d_pc' = AfterEpisode
              ELSE /\ d_pc' = "raised"
                   /\ UNCHANGED <<posts, handled, d_i>>
       ELSE /\ handled' = Append(handled, IF TruthyOpt(x_content) THEN "[DRY_RUN] X thread"
                                                                  ELSE "X post error")
            /\ d_i' = d_i + 1
            /\ d_pc' = AfterEpisode
            /\ UNCHANGED posts
    /\ UNCHANGED <<unprocessed, dry_run, auto_post, x_slots, episode_transcript, thumb_str,
                   summary, x_content, episodes, llm_calls, thumbnail_fetches>>
    /\ UNCHANGED <<cvars, svars, gvars, avars, rvars, pvars>>

DNext ==
    \/ SkipNoContent
    \/ TakeTranscript
    \/ FetchThumbnail
    \/ Summarise
    \/ SaveEpisode
    \/ GenerateX
    \/ SavePost

\* ------------------------------------------------- reddit_poster
\* A subreddit name is a text, here the list of its characters.
MaxSuggested == 4

\* The cap of _allowed_subreddits
CAP == 3

\* str.lower() on the characters in use
Lower(ch) == IF ch = "G" THEN "g" ELSE IF ch = "R" THEN "r" ELSE ch
lower(name) == [k \in 1..Len(name) |-> Lower(name[k])]

RECURSIVE lstrip_chars(_, _)
\* str.lstrip(chars): the leading characters that are in `chars` go
lstrip_chars(name, chars) ==
    IF name # <<>> /\ Head(name) \in chars THEN lstrip_chars(Tail(name), chars) ELSE name

\* name.startswith("r/")
startswith_r(name) == Len(name) >= 2 /\ name[1] = "r" /\ name[2] = "/"

\* name.lower().lstrip("r/")
KeyOf(name) == lstrip_chars(lower(name), {"r", "/"})

\* The names of the model.
GO == <<"g", "o">>
R_GO == <<"r", "/", "g", "o">>
Go == <<"G", "o">>
RUST == <<"r", "u", "s", "t">>
UST == <<"u", "s", "t">>
SubredditNames == {GO, R_GO, Go, RUST, UST}

\* An entry of subreddits.yaml: promo_allowed is true, false or not given.
Sub(name, promo) == [name |-> name, promo_allowed |-> promo]

\* sub.get("promo_allowed", True)
PromoAllowed(sub) == sub.promo_allowed \in {"true", "missing"}

\* subreddits_config.get("topic_tags", {}).values(), tag after tag: the
\* empty list stands for a file without topic_tags.
SubredditConfigs ==
    { <<>>,
      <<Sub(R_GO, "true"), Sub(RUST, "false")>>,
      <<Sub(GO, "missing"), Sub(RUST, "missing")>>,
      <<Sub(GO, "false"), Sub(UST, "true"), Sub(GO, "true")>> }

RECURSIVE SuggestedLists(_)
\* The lists of at most k suggested names.
SuggestedLists(k) ==
    IF k = 0 THEN {<<>>}
    ELSE SuggestedLists(k - 1)
            \cup { Append(l, x) : x \in SubredditNames,
                                  l \in {u \in SuggestedLists(k - 1) : Len(u) = k - 1} }

\* lines 39-44: the keys of `allowed`
AllowedKeys(cfg) == { KeyOf(cfg[k].name) : k \in {j \in 1..Len(cfg) : PromoAllowed(cfg[j])} }

RECURSIVE Filter(_, _, _)
\* lines 46-50: the loop over `suggested`, with the result so far
Filter(sug, keys, res) ==
    IF sug = <<>> THEN res
    ELSE Filter(Tail(sug), keys,
                IF KeyOf(Head(sug)) \in keys /\ Len(res) < CAP
                THEN Append(res, IF startswith_r(Head(sug)) THEN Head(sug)
                                 ELSE <<"r", "/">> \o Head(sug))
                ELSE res)

\* _allowed_subreddits(suggested, subreddits_config)
_allowed_subreddits(sug, cfg) == Filter(sug, AllowedKeys(cfg), <<>>)

\* clean = subreddit_name.lstrip("r/"), the name reddit.subreddit() is given
CleanTarget(name) == lstrip_chars(name, {"r", "/"})

\* f"https://reddit.com{submission.permalink}"
UrlOf(name) == <<"https://reddit.com/r/">> \o name

RInit ==
    /\ suggested_subreddits \in SuggestedLists(MaxSuggested)
    /\ subreddits_config \in SubredditConfigs
    /\ targets = <<>>
    /\ urls = <<>>
    /\ t_i = 0
    /\ rd_pc = "start"
    /\ submissions = <<>>
    /\ ChunkerIdle
    /\ SummarizerIdle
    /\ SchedulerIdle
    /\ StaggerIdle
    /\ DiscoverIdle
    /\ PipelineIdle

\* lines 65-70
RedditTargets ==
    /\ rd_pc = "start"
    /\ targets' = _allowed_subreddits(suggested_subreddits, subreddits_config)
    /\ rd_pc' = IF targets' = <<>> THEN "returned" ELSE "submit"
    /\ UNCHANGED <<suggested_subreddits, subreddits_config, urls, t_i, submissions>>
    /\ UNCHANGED <<cvars, svars, gvars, avars, dvars, pvars>>

\* lines 73-86: one target; a submission that raises is reported and skipped
RedditSubmit ==
    /\ rd_pc = "submit"
    /\ submissions' = Append(submissions, CleanTarget(targets[t_i + 1]))
    /\ \E ok \in BOOLEAN :
         urls' = IF ok THEN Append(urls, UrlOf(CleanTarget(targets[t_i + 1]))) ELSE urls
    /\ t_i' = t_i + 1
    /\ rd_pc' = IF t_i + 1 < Len(targets) THEN "submit" ELSE "returned"
    /\ UNCHANGED <<suggested_subreddits, subreddits_config, targets>>
    /\ UNCHANGED <<cvars, svars, gvars, avars, dvars, pvars>>

RNext == RedditTargets \/ RedditSubmit

\* ------------------------------------------- discover, review and post runs
\* The commands of main.py run one after the other on one database.
MaxCommands == 3

\* The times at which commands are started: one second before the first
\* window of the default schedule, and at it.
Instants ==
    << datetime(Date(2024, 12, 31), 13, 59, 59),
       datetime(Date(2024, 12, 31), 14, 0, 0) >>

\* datetime.utcnow()
utcnow == Instants[clock]

\* datetime.now(tz) of an instant given in UTC, for the zones of the model:
\* New York is on EST at the model's instants.
now_in(tz, t) ==
    [wall |-> IF tz = NEW_YORK THEN t + EST ELSE t, fold |-> 0]

\* a <= b of two texts "%Y-%m-%dT%H:%M:%SZ": their fields have a fixed
\* width, the comparison goes field by field from the year on.
RECURSIVE FieldsLE(_, _)
FieldsLE(a, b) ==
    IF a = <<>> THEN TRUE
    ELSE IF Head(a) # Head(b) THEN Head(a) < Head(b)
    ELSE FieldsLE(Tail(a), Tail(b))

StampLE(a, b) ==
    FieldsLE(<<a.year, a.month, a.day, a.hour, a.minute, a.second>>,
             <<b.year, b.month, b.day, b.hour, b.minute, b.second>>)

\* The videos check_channels returns at the instants of the model (it looks
\* 25 hours back): one with a transcript, one with no text at all.
OnYouTube == << Video([transcript |-> Some(SomeWords), description |-> <<>>], 1),
                Video([transcript |-> None, description |-> Blank], 2) >>

\* A post generated for Reddit while that was switched on in cmd_discover.
RedditContent ==
    [title |-> JStr("t"), body |-> JStr("b"), suggested_subreddits |-> JList(<<GO>>)]

\* The posts of an earlier episode: one for Reddit, approved and due, and a
\* thread waiting for review.
EarlierPosts ==
    << [video_id |-> 0, platform |-> "reddit", content |-> RedditContent,
        thumbnail_path |-> None, scheduled_at |-> strftime(Instants[1]),
        status |-> "approved", post_url |-> None, error |-> None, posted_at |-> None],
       [video_id |-> 0, platform |-> "x", content |-> XThread,
        thumbnail_path |-> None, scheduled_at |-> strftime(Instants[2]),
        status |-> "pending", post_url |-> None, error |-> None, posted_at |-> None] >>

\* What the commands find when the first of them starts: an empty database,
\* or the posts of an earlier episode, with the Reddit credentials and the
\* allow-list of the installation.
Installations ==
    { [episodes |-> {}, posts |-> <<>>, reddit_configured |-> FALSE,
       subreddits_cfg |-> <<>>] }
    \cup
    { [episodes |-> { [video_id |-> 0, thumbnail_path |-> None, transcript |-> FinalSparse] },
       posts |-> SubSeq(EarlierPosts, 1, c.posts),
       reddit_configured |-> c.configured, subreddits_cfg |-> c.cfg] :
        c \in { [configured |-> TRUE, cfg |-> <<Sub(GO, "missing")>>, posts |-> 1],
                [configured |-> TRUE, cfg |-> <<Sub(GO, "false")>>, posts |-> 1],
                [configured |-> FALSE, cfg |-> <<Sub(GO, "missing")>>, posts |-> 2] } }

\* No command is running.
Quiet ==
    /\ d_pc \in {"idle", "done", "raised"}
    /\ r_pc \in {"idle", "done", "raised"}
    /\ p_pc \in {"idle", "done", "raised"}

\* The rows of a query, ORDER BY scheduled_at ASC: every order of the ids
\* that is ascending (rows of equal scheduled_at come in any order).
OrdersOf(ids) ==
    { q \in [1..Cardinality(ids) -> ids] :
        /\ \A j, k \in 1..Cardinality(ids) : j # k => q[j] # q[k]
        /\ \A j, k \in 1..Cardinality(ids) :
             j < k => StampLE(posts[q[j]].scheduled_at, posts[q[k]].scheduled_at) }

\* JOIN episodes e ON p.video_id = e.video_id
Joined(row) == is_episode_processed(episodes, row.video_id)

\* Mutation: the review lists the approved posts too.
IsPending_orApproved(row) == row.status \in {"pending", "approved"}

\* get_pending_posts: WHERE p.status = 'pending'
IsPending(row) == row.status = "pending"

\* Mutation: the schedule is not looked at.
IsDue_anyTime(row, now) == row.status = "approved"

\* get_due_posts: WHERE p.status = 'approved' AND p.scheduled_at <= now
IsDue(row, now) == row.status = "approved" /\ StampLE(row.scheduled_at, now)

\* update_post_status(post_id, status, post_url, error): the row after it
update_post_status(rows, id, status, post_url, error) ==
    [rows EXCEPT ![id] = [@ EXCEPT !.status = status,
                                   !.post_url = post_url,
                                   !.error = error,
                                   !.posted_at = IF status = "posted" THEN Some(utcnow)
                                                 ELSE None]]

\* An entry of the history of adapter calls: the post as it is in the
\* database when its adapter is called, and what the call published.
AdapterCall(id, row, published) ==
    [id |-> id, platform |-> row.platform, status |-> row.status,
     scheduled_at |-> row.scheduled_at, at |-> strftime(utcnow), published |-> published]

\* The process of an earlier command has exited: its locals are gone.
DiscoverGone ==
    /\ unprocessed' = <<>>
    /\ dry_run' = FALSE
    /\ auto_post' = FALSE
    /\ x_slots' = <<>>
    /\ d_i' = 0
    /\ d_pc' = "idle"
    /\ episode_transcript' = <<>>
    /\ thumb_str' = None
    /\ summary' = None
    /\ x_content' = None
    /\ handled' = <<>>
    /\ llm_calls' = <<>>
    /\ thumbnail_fetches' = <<>>

ReviewGone ==
    /\ pending' = <<>>
    /\ r_i' = 0
    /\ r_pc' = "idle"
    /\ choice' = "s"

PostGone ==
    /\ due' = <<>>
    /\ p_i' = 0
    /\ p_pc' = "idle"

PInit ==
    /\ clock = 1
    /\ commands = 0
    /\ \E inst \in Installations :
         /\ episodes = inst.episodes
         /\ posts = inst.posts
         /\ reddit_configured = inst.reddit_configured
         /\ subreddits_cfg = inst.subreddits_cfg
    /\ pending = <<>>
    /\ r_i = 0
    /\ r_pc = "idle"
    /\ choice = "s"
    /\ due = <<>>
    /\ p_i = 0
    /\ p_pc = "idle"
    /\ adapter_calls = <<>>
    /\ unprocessed = <<>>
    /\ dry_run = FALSE
    /\ auto_post = FALSE
    /\ x_slots = <<>>
    /\ d_i = 0
    /\ d_pc = "idle"
    /\ episode_transcript = <<>>
    /\ thumb_str = None
    /\ summary = None
    /\ x_content = None
    /\ handled = <<>>
    /\ llm_calls = <<>>
    /\ thumbnail_fetches = <<>>
    /\ ChunkerIdle
    /\ SummarizerIdle
    /\ SchedulerIdle
    /\ StaggerIdle
    /\ RedditIdle

\* Time passes between two commands.
Tick ==
    /\ Quiet
    /\ clock < Len(Instants)
    /\ clock' = clock + 1
    /\ DiscoverGone
    /\ ReviewGone
    /\ PostGone
    /\ UNCHANGED <<episodes, posts, commands, reddit_configured, subreddits_cfg, adapter_calls>>
    /\ UNCHANGED <<cvars, svars, gvars, avars, rvars>>

\* python main.py discover: lines 59-94
StartDiscover ==
    /\ Quiet
    /\ commands < MaxCommands
    /\ commands' = commands + 1
    /\ dry_run' \in BOOLEAN
    /\ auto_post' \in BOOLEAN
    /\ unprocessed' = SelectSeq(OnYouTube,
                                LAMBDA v : ~is_episode_processed(episodes, v.video_id))
    /\ x_slots' = IF unprocessed' = <<>> THEN <<>>
                  ELSE get_schedule_slots(Len(unprocessed'), [key \in {} |-> <<>>],
                                          now_in(DEFAULT_TIMEZONE, utcnow))
    /\ d_i' = 0
    /\ d_pc' = IF unprocessed' = <<>> THEN "done" ELSE "transcript"
    /\ episode_transcript' = <<>>
    /\ thumb_str' = None
    /\ summary' = None
    /\ x_content' = None
    /\ handled' = <<>>
    /\ llm_calls' = <<>>
    /\ thumbnail_fetches' = <<>>
    /\ ReviewGone
    /\ PostGone
    /\ UNCHANGED <<episodes, posts, clock, reddit_configured, subreddits_cfg, adapter_calls>>
    /\ UNCHANGED <<cvars, svars, gvars, avars, rvars>>

\* python main.py review: run_review, lines 75-83
StartReview ==
    /\ Quiet
    /\ commands < MaxCommands
    /\ commands' = commands + 1
    /\ pending' \in OrdersOf({ k \in 1..Len(posts) : IsPending(posts[k]) /\ Joined(posts[k]) })
    /\ r_i' = 0
    /\ r_pc' = IF pending' = <<>> THEN "done" ELSE "prompt"
    /\ choice' = "s"
    /\ DiscoverGone
    /\ PostGone
    /\ UNCHANGED <<episodes, posts, clock, reddit_configured, subreddits_cfg, adapter_calls>>
    /\ UNCHANGED <<cvars, svars, gvars, avars, rvars>>

\* The keys of the prompt of line 97.
Choices == {"a", "r", "s", "q"}

\* run_review, lines 87-118: one post of the session and the key typed
ReviewOne ==
    /\ r_pc = "prompt"
    /\ \E key \in Choices, db \in DbOutcomes :
         LET id == pending[r_i + 1]
             more == IF r_i + 1 < Len(pending) THEN "prompt" ELSE "done"
         IN  /\ (key \in {"s", "q"}) => db = "ok"
             /\ choice' = key
             /\ IF key \in {"a", "r"} /\ db = "error"
                THEN /\ r_pc' = "raised"
                     /\ UNCHANGED <<posts, r_i>>
                ELSE /\ posts' = CASE key = "a" ->
                                        update_post_status(posts, id, "approved", None, None)
                                   [] key = "r" ->
                                        update_post_status(posts, id, "rejected", None, None)
                                   [] OTHER -> posts
                     /\ r_i' = r_i + 1
                     /\ r_pc' = IF key = "q" THEN "done" ELSE more
    /\ UNCHANGED <<clock, commands, reddit_configured, subreddits_cfg, pending, due, p_i, p_pc,
                   adapter_calls>>
    /\ UNCHANGED <<unprocessed, dry_run, auto_post, x_slots, d_i, d_pc, episode_transcript,
                   thumb_str, summary, x_content, episodes, handled, llm_calls,
                   thumbnail_fetches>>
    /\ UNCHANGED <<cvars, svars, gvars, avars, rvars>>

\* python main.py post: cmd_post, lines 192-204
StartPost ==
    /\ Quiet
    /\ commands < MaxCommands
    /\ commands' = commands + 1
    /\ due' \in OrdersOf({ k \in 1..Len(posts) :
                            IsDue(posts[k], strftime(utcnow)) /\ Joined(posts[k]) })
    /\ p_i' = 0
    /\ p_pc' = IF due' = <<>> THEN "done" ELSE "posting"
    /\ DiscoverGone
    /\ ReviewGone
    /\ UNCHANGED <<episodes, posts, clock, reddit_configured, subreddits_cfg, adapter_calls>>
    /\ UNCHANGED <<cvars, svars, gvars, avars, rvars>>

\* x_poster.post_thread(tweets, ...): None for no tweets; else the URL of the
\* first tweet after all were created, or an exception of the client, of
\* create_tweet or of get_me after some of them were.
ThreadOutcomes(tweets) ==
    IF tweets = <<>> THEN { [raised |-> FALSE, published |-> 0, url |-> None] }
    ELSE { [raised |-> TRUE, published |-> k, url |-> None] :
             k \in 0..(IF Len(tweets) = 1 THEN 1 ELSE Len(tweets) - 1) }
         \cup { [raised |-> FALSE, published |-> Len(tweets), url |-> Some(<<"first tweet">>)] }

\* ",".join(urls)
RECURSIVE join_urls(_)
join_urls(texts) ==
    IF texts = <<>> THEN <<>>
    ELSE IF Len(texts) = 1 THEN texts[1]
    ELSE texts[1] \o <<",">> \o join_urls(Tail(texts))

\* reddit_poster.post_to_subreddits(...): the URLs of the submissions that
\* went through, in the targets' order; cmd_post joins them.
SubmissionOutcomes(content, cfg) ==
    LET tgts == _allowed_subreddits(content.suggested_subreddits.val, cfg)
    IN  { [raised |-> FALSE, published |-> Cardinality(done),
           url |-> Some(join_urls(SelectSeq([k \in 1..Len(tgts) |->
                                               IF k \in done THEN UrlOf(CleanTarget(tgts[k]))
                                               ELSE <<>>],
                                            LAMBDA u : u # <<>>)))] :
            done \in SUBSET (1..Len(tgts)) }

\* What the adapter of a post's platform can do with its content.
AdapterOutcomes(post) ==
    IF post.platform = "x"
    THEN ThreadOutcomes(post.content.tweets.val)
    ELSE SubmissionOutcomes(post.content, subreddits_cfg)

\* cmd_post, lines 206-238: one due post
PostOne ==
    /\ p_pc = "posting"
    /\ LET id == due[p_i + 1]
           post == posts[id]
           more == IF p_i + 1 < Len(due) THEN "posting" ELSE "done"
       IN  IF post.platform = "reddit" /\ ~reddit_configured
           THEN /\ p_i' = p_i + 1
                /\ p_pc' = more
                /\ UNCHANGED <<posts, adapter_calls>>
           ELSE \E o \in AdapterOutcomes(post), db1 \in DbOutcomes, db2 \in DbOutcomes :
                  /\ (o.raised => db1 = "ok")
                  /\ ((~o.raised /\ db1 = "ok") => db2 = "ok")
                  /\ adapter_calls' = Append(adapter_calls,
                                              AdapterCall(id, post, o.published))
                  /\ IF ~o.raised /\ db1 = "ok"
                     THEN /\ posts' = update_post_status(posts, id, "posted", o.url, None)
                          /\ p_i' = p_i + 1
                          /\ p_pc' = more
                     ELSE IF db2 = "ok"
                     THEN /\ posts' = update_post_status(posts, id, "failed", None,
                                                         Some(<<"str(e)">>))
                          /\ p_i' = p_i + 1
                          /\ p_pc' = more
                     ELSE /\ p_pc' = "raised"
                          /\ UNCHANGED <<posts, p_i>>
    /\ UNCHANGED <<clock, commands, reddit_configured, subreddits_cfg, pending, r_i, r_pc,
                   choice, due>>
    /\ UNCHANGED <<unprocessed, dry_run, auto_post, x_slots, d_i, d_pc, episode_transcript,
                   thumb_str, summary, x_content, episodes, handled, llm_calls,
                   thumbnail_fetches>>
    /\ UNCHANGED <<cvars, svars, gvars, avars, rvars>>

PNext ==
    \/ Tick
    \/ StartDiscover
    \/ SkipNoContent
    \/ TakeTranscript
    \/ FetchThumbnail
    \/ Summarise
    \/ SaveEpisode
    \/ GenerateX
    \/ SavePost
    \/ StartReview
    \/ ReviewOne
    \/ StartPost
    \/ PostOne

SpecChunk == CInit /\ [][CNext]_vars

SpecSumm == SInit /\ [][SNext]_vars

\* _chunk_transcript runs to its end: a step that can be taken is taken.
SpecChunkLive == CInit /\ [][CNext]_vars /\ WF_vars(CNext)

SpecSched == GInit /\ [][GNext]_vars

SpecStagger == AInit /\ [][ANext]_vars

SpecDiscover == DInit /\ [][DNext]_vars

SpecReddit == RInit /\ [][RNext]_vars

SpecPipeline == PInit /\ [][PNext]_vars

\* -------------------------------------------- summarize_episode: claims
\* The run is over: it returned, or an exception left it.
Ended == s_pc \in {"returned", "raised"}

IsChunkCall(c) == c.model = _chunk_model /\ c.prompt.template = "_CHUNK_PROMPT"
IsSynthesisCall(c) == c.model = _synthesis_model /\ c.prompt.template = "_SYNTHESIS_PROMPT"
IsSinglePassCall(c) == c.model = _synthesis_model /\ c.prompt.template = "_SINGLE_PASS_PROMPT"

\* The call did not end in its except branch.
Succeeded(c) == ~TryParse(c.outcome).raised
Parsed(c) == TryParse(c.outcome).value

RECURSIVE SuccessesOf(_)
\* The parsed outputs of the successful calls of cs, in order.
SuccessesOf(cs) ==
    IF cs = <<>> THEN <<>>
    ELSE (IF Succeeded(Head(cs)) THEN <<Parsed(Head(cs))>> ELSE <<>>) \o SuccessesOf(Tail(cs))

\* The first k calls are the chunk calls of chunks 1..k, in chunk order.
ChunkCallsInOrder(k) ==
    /\ Len(calls) >= k
    /\ \A j \in 1..k :
         /\ IsChunkCall(calls[j])
         /\ calls[j].prompt.chunk_num = j
         /\ calls[j].prompt.chunk = chunks[j]

\* C1 as stated: with N > 1 chunks and at least one successful chunk call,
\* a run makes exactly N chunk-model calls, one per chunk in chunk order,
\* and then exactly one synthesis-model call.
C1_RollingMakesNPlusOneCalls ==
    (Ended /\ n > 1 /\ \E k \in 1..Len(calls) : IsChunkCall(calls[k]) /\ Succeeded(calls[k]))
        => /\ Len(calls) = n + 1
           /\ ChunkCallsInOrder(n)
           /\ IsSynthesisCall(calls[n + 1])

\* What holds of C1 in the code: the runs that return make those calls.
RollingReturnMakesNPlusOneCalls ==
    (s_pc = "returned" /\ n > 1 /\ partial_summaries # <<>>)
        => /\ Len(calls) = n + 1
           /\ ChunkCallsInOrder(n)
           /\ IsSynthesisCall(calls[n + 1])

\* C2: with exactly one chunk, the run makes exactly one call, to the
\* synthesis model, on the full transcript, makes no chunk-model call and no
\* synthesis pass, and on success returns the parsed output unchanged.
C2_SinglePassOneCall ==
    n = 1 =>
        /\ Len(calls) <= 1
        /\ \A k \in 1..Len(calls) :
             /\ IsSinglePassCall(calls[k])
             /\ calls[k].prompt.transcript = transcript
        /\ s_pc # "raised"
        /\ s_pc = "returned" =>
             /\ Len(calls) = 1
             /\ result = (IF Succeeded(calls[1]) THEN Some(Parsed(calls[1])) ELSE None)

\* One chunk that is not the whole transcript, and a successful call.
C2_Witness ==
    /\ s_pc = "returned"
    /\ n = 1
    /\ StrLen(transcript) > CHUNK_SIZE
    /\ chunks[1] # transcript
    /\ Succeeded(calls[1])
    /\ result = Some(FinalFull)

\* C3: with N > 1 chunks, when all N chunk calls failed the run returns None
\* and the synthesis model is never called; a synthesis call is made only
\* after all N chunks were attempted and with a non-empty accumulator.
C3_NoSynthesisWithoutPartials ==
    n > 1 =>
        /\ (ChunkCallsInOrder(n) /\ \A k \in 1..n : ~Succeeded(calls[k]))
              => /\ Len(calls) = n
                 /\ s_pc \in {"loop", "returned"}
                 /\ s_pc = "loop" => (ENABLED AllChunksFailed /\ ~ENABLED Synthesis)
                 /\ s_pc = "returned" => result = None
        /\ \A k \in 1..Len(calls) :
             ~IsChunkCall(calls[k])
                 => /\ IsSynthesisCall(calls[k])
                    /\ k = n + 1
                    /\ ChunkCallsInOrder(n)
                    /\ partial_summaries # <<>>
                    /\ \E j \in 1..n : Succeeded(calls[j])

\* All three chunks failed and the run returned None after three calls.
C3_Witness ==
    /\ s_pc = "returned"
    /\ n = 3
    /\ Len(calls) = 3
    /\ \A k \in 1..3 : IsChunkCall(calls[k]) /\ ~Succeeded(calls[k])
    /\ result = None

\* The chunk calls of the log: in the rolling path, its first n entries at most.
ChunkCallsMade == SubSeq(calls, 1, IF Len(calls) < n THEN Len(calls) ELSE n)

\* C4 as stated: a failed chunk call does not stop the run: every later
\* chunk is still attempted, the failed chunk adds nothing, and at the end
\* the accumulator holds exactly the successful chunks' partial summaries in
\* chunk order.
C4_ChunkFailureIsNotFatal ==
    (Ended /\ n > 1) =>
        /\ \A k \in 1..Len(calls) :
             (IsChunkCall(calls[k]) /\ ~Succeeded(calls[k])) => ChunkCallsInOrder(n)
        /\ partial_summaries = SuccessesOf(ChunkCallsMade)

\* What holds of C4 in the code: at every point of the loop the accumulator
\* is the successful chunks' outputs so far, in chunk order, and it only grows.
AccumulatorIsSuccessesSoFar ==
    (s_pc \in {"loop", "returned", "raised"} /\ n > 1) =>
        /\ ChunkCallsInOrder(i)
        /\ partial_summaries = SuccessesOf(SubSeq(calls, 1, i))

AccumulatorOnlyGrows ==
    [][/\ Len(partial_summaries') >= Len(partial_summaries)
       /\ SubSeq(partial_summaries', 1, Len(partial_summaries)) = partial_summaries]_vars

\* C5: the prompt of the call for chunk k holds the formatter's rendering of
\* exactly the partial summaries accumulated from chunks 1..k-1, the position
\* k, the total N and the text of chunk k; for the first chunk the context
\* is the empty string.
C5_PromptCarriesAllPreviousSummaries ==
    \A k \in 1..Len(calls) :
        IsChunkCall(calls[k]) =>
            /\ calls[k].prompt.chunk_num = k
            /\ calls[k].prompt.total_chunks = n
            /\ calls[k].prompt.chunk = chunks[k]
            /\ ~_format_previous_context(SuccessesOf(SubSeq(calls, 1, k - 1))).raised
            /\ calls[k].prompt.previous_context
                  = _format_previous_context(SuccessesOf(SubSeq(calls, 1, k - 1))).text
            /\ k = 1 => calls[k].prompt.previous_context = <<>>

\* The third chunk's prompt carries two different earlier summaries.
C5_Witness ==
    /\ Len(calls) >= 3
    /\ IsChunkCall(calls[3])
    /\ SuccessesOf(SubSeq(calls, 1, 2)) = <<PartialFull, PartialSparse>>
    /\ calls[3].prompt.previous_context
          = _format_previous_context(<<PartialFull, PartialSparse>>).text

\* No chunk is sent twice and the synthesis model is called at most once.
NoRetry ==
    /\ \A j, k \in 1..Len(calls) :
         (IsChunkCall(calls[j]) /\ IsChunkCall(calls[k]) /\ j # k)
            => calls[j].prompt.chunk_num # calls[k].prompt.chunk_num
    /\ Cardinality({k \in 1..Len(calls) : calls[k].model = _synthesis_model}) <= 1

\* A failed single-pass or synthesis call is the last call, and the run
\* returns None.
HighTierFailureFails ==
    \A k \in 1..Len(calls) :
        (calls[k].model = _synthesis_model /\ ~Succeeded(calls[k]))
            => k = Len(calls) /\ s_pc = "returned" /\ result = None

\* C6 as stated: no retries, a failed single-pass or synthesis call makes the
\* run return None without a further call, and the run always ends as
\* Succeeded(summary) or Failed: it returns a dict or None.
C6_NoRetryAndRunReturns ==
    /\ NoRetry
    /\ HighTierFailureFails
    /\ s_pc # "raised"
    /\ s_pc = "returned" => (result = None \/ Len(result) = 1)

RECURSIVE LongestGap(_, _)
\* The length of the longest run of whitespace characters of s; cur is the
\* length of the run being read.
LongestGap(s, cur) ==
    IF s = <<>> THEN cur
    ELSE IF Head(s).c \in Whitespace
         THEN LongestGap(Tail(s), cur + Head(s).n)
         ELSE LET rest == LongestGap(Tail(s), 0)
              IN  IF cur > rest THEN cur ELSE rest

Returned == c_pc = "returned"

\* The offsets lo..hi (both included) of s hold a space.
SpaceWithin(s, lo, hi) == rfind(s, SP, lo, hi + 1) # -1

\* The stepwise chunker and the function agree.
ChunkerAgrees == Returned => chunks = _chunk_transcript(transcript)

\* C7: a transcript no longer than CHUNK_SIZE (the length CHUNK_SIZE itself
\* included) comes back as the one-element list holding it unchanged.
C7_ShortIsOneChunk ==
    (Returned /\ StrLen(transcript) <= CHUNK_SIZE) => chunks = <<transcript>>

\* A transcript of exactly CHUNK_SIZE characters that ends in whitespace.
C7_Witness ==
    /\ Returned
    /\ StrLen(transcript) = CHUNK_SIZE
    /\ Len(transcript) >= 2
    /\ transcript[Len(transcript)].c \in Whitespace
    /\ chunks = <<transcript>>

C10_NoEmptyChunkEver ==
    Returned => \A k \in 1..Len(chunks) : chunks[k] # <<>>

\* C10 amended: for every non-empty transcript, no returned chunk is the
\* empty string (and at least one chunk is returned).
C10_NoEmptyChunk ==
    (Returned /\ transcript # <<>>)
        => /\ Len(chunks) >= 1
           /\ \A k \in 1..Len(chunks) : chunks[k] # <<>>

\* The remainder was stripped to nothing and was not appended.
C10_Witness ==
    /\ Returned
    /\ StrLen(transcript) > CHUNK_SIZE
    /\ remaining = <<>>
    /\ Len(chunks) >= 2
    /\ \A k \in 1..Len(chunks) : chunks[k] # <<>>

\* C11 as stated: every returned chunk has length at most CHUNK_SIZE, the
\* chunks produced by a split as well as the final remainder.
C11_ChunkAtMostTarget ==
    Returned => \A k \in 1..Len(chunks) : StrLen(chunks[k]) <= CHUNK_SIZE

\* C11 amended: a chunk produced by a split has length between
\* CHUNK_SIZE-300 and CHUNK_SIZE+299 (the offset of the space the search
\* found, or CHUNK_SIZE when it found none); the final remainder and the one
\* chunk of a short transcript have length at most CHUNK_SIZE.
C11_ChunkWithinWindowOfTarget ==
    /\ c_pc = "cut" => /\ CHUNK_SIZE - WINDOW <= split_at
                       /\ split_at <= CHUNK_SIZE + WINDOW - 1
    /\ \A k \in 1..Len(chunks) : StrLen(chunks[k]) <= CHUNK_SIZE + WINDOW - 1
    /\ (Returned /\ IsShort(transcript)) => StrLen(chunks[1]) <= CHUNK_SIZE
    /\ (Returned /\ ~IsShort(transcript)) =>
          /\ StrLen(remaining) <= CHUNK_SIZE
          /\ \A k \in 1..Len(chunks) :
                (k < Len(chunks) \/ remaining = <<>>)
                    => StrLen(chunks[k]) >= CHUNK_SIZE - WINDOW
          /\ remaining # <<>> => chunks[Len(chunks)] = remaining

\* A split chunk of CHUNK_SIZE+299 characters, followed by a final remainder.
C11_Witness ==
    /\ Returned
    /\ Len(chunks) >= 2
    /\ StrLen(chunks[1]) = CHUNK_SIZE + WINDOW - 1
    /\ chunks[Len(chunks)] = remaining
    /\ remaining # <<>>

\* ---------------------------------------------------- scheduler: claims
SlotsReturned == g_pc = "returned"

\* The zone and the windows of the call.
CallZone == TimezoneOf(schedule_config)
CallWindows == WindowsOf(schedule_config)

\* The instant of the call, in seconds of UTC.
CallInstant ==
    now_local.wall - utcoffset(CallZone, now_local.wall, now_local.fold)

\* Today's occurrence of the k-th configured window, as a wall clock time.
TodayAt(k) == datetime(date_of(now_local.wall), CallWindows[k][1], CallWindows[k][2], 0)

\* The wall clock time of slot k (from 0): its window of the working list
\* plus 5 minutes per lap.
SlotWall(k) == window_dts[(k % Len(window_dts)) + 1] + (k \div Len(window_dts)) * 5 * 60

\* The instant a returned timestamp names, in seconds of UTC.
InstantOf(text) == strptime(text)

\* C13: get_schedule_slots returns exactly count timestamps, the k-th of
\* them (from 0) W[k mod m] + (k div m) x 5 minutes converted to UTC, W
\* being the working list of m window instants.
C13_SlotsRoundRobinWithLapOffset ==
    /\ g_pc \in {"loop", "returned"} => Len(slots) = slot_i
    /\ SlotsReturned =>
          /\ Len(slots) = count
          /\ \A k \in 0..(count - 1) :
                slots[k + 1] = strftime(SlotWall(k) - utcoffset(CallZone, SlotWall(k), 0))

\* The default windows, all ahead on 31 December in New York, and count = 5:
\* the four windows of the day (the last one on 1 January in UTC), then the
\* first window + 5 minutes.
C13_Witness ==
    /\ SlotsReturned
    /\ DOMAIN schedule_config = {}
    /\ count = 5
    /\ slots = << Stamp(Date(2024, 12, 31), 14, 0, 0), Stamp(Date(2024, 12, 31), 17, 0, 0),
                  Stamp(Date(2024, 12, 31), 22, 0, 0), Stamp(Date(2025, 1, 1), 0, 0, 0),
                  Stamp(Date(2024, 12, 31), 14, 5, 0) >>

\* The configured windows are pairwise distinct.
DistinctWindows ==
    \A j, k \in 1..Len(CallWindows) : j # k => CallWindows[j] # CallWindows[k]

\* C14 as stated: for every count and every list of distinct configured
\* windows, the timestamps of one call are pairwise distinct.
C14_SlotsPairwiseDistinct ==
    (SlotsReturned /\ DistinctWindows)
        => \A j, k \in 1..Len(slots) : j # k => slots[j] # slots[k]

\* What holds of C14 in the code: the slots of one lap are pairwise
\* distinct when the windows are distinct and none of them is a time the
\* zone skips.
SlotsOfFirstLapDistinct ==
    (SlotsReturned /\ DistinctWindows
        /\ \A k \in 1..Len(window_dts) : ~IsGap(CallZone, window_dts[k]))
        => \A j, k \in 1..Len(slots) :
              (j # k /\ j <= Len(window_dts) /\ k <= Len(window_dts)) => slots[j] # slots[k]

\* Minutes of the day of a configured window.
MinuteOfDay(w) == w[1] * 60 + w[2]

SortedWindows ==
    \A j, k \in 1..Len(CallWindows) :
        j < k => MinuteOfDay(CallWindows[j]) <= MinuteOfDay(CallWindows[k])

StrictlySortedWindows ==
    \A j, k \in 1..Len(CallWindows) :
        j < k => MinuteOfDay(CallWindows[j]) < MinuteOfDay(CallWindows[k])

\* Slots j < k (from 1) lie in the same lap group.
SameLap(j, k) == (j - 1) \div Len(window_dts) = (k - 1) \div Len(window_dts)

NoSlotInGap == \A k \in 0..(count - 1) : ~IsGap(CallZone, SlotWall(k))

C16_SlotsAfterCallTime ==
    g_pc \in {"loop", "returned"} =>
        /\ (\E k \in 1..Len(CallWindows) : TodayAt(k) > now_local.wall)
              => /\ \A k \in 1..Len(window_dts) :
                       /\ window_dts[k] > now_local.wall
                       /\ window_dts[k] - utcoffset(CallZone, window_dts[k], 0) > CallInstant
                 /\ \E f \in [1..Len(window_dts) -> 1..Len(CallWindows)] :
                       /\ \A j, k \in 1..Len(window_dts) : j < k => f[j] < f[k]
                       /\ \A k \in 1..Len(window_dts) : window_dts[k] = TodayAt(f[k])
                 /\ \A k \in 1..Len(CallWindows) :
                       TodayAt(k) > now_local.wall
                           => \E j \in 1..Len(window_dts) : window_dts[j] = TodayAt(k)
        /\ \A k \in 1..Len(slots) : InstantOf(slots[k]) > CallInstant

\* What holds of C16 in the code: the windows kept are those whose wall
\* clock time is after the call's, in configured order, and outside the
\* hour a zone repeats every slot is later than the call.
KeptByWallClock ==
    (g_pc \in {"loop", "returned"}
        /\ \E k \in 1..Len(CallWindows) : TodayAt(k) > now_local.wall)
        => window_dts = SelectSeq([k \in 1..Len(CallWindows) |-> TodayAt(k)],
                                  LAMBDA dt : dt > now_local.wall)

SlotsAfterCallOutsideRepeatedHour ==
    now_local.fold = 0 => \A k \in 1..Len(slots) : InstantOf(slots[k]) > CallInstant

\* Every configured window of today has passed.
AllPassed == \A k \in 1..Len(CallWindows) : TodayAt(k) <= now_local.wall

\* Tomorrow's occurrence of the first configured window.
TomorrowFirst ==
    datetime(NextDay(date_of(now_local.wall)), CallWindows[1][1], CallWindows[1][2], 0)

\* C17: when every configured window has passed today, the working list is
\* exactly tomorrow's occurrence of the first configured window, and the
\* call returns count slots, slot k (from 0) being that instant + 5k minutes.
C17_AllPassedUsesTomorrowFirst ==
    (g_pc \in {"loop", "returned"} /\ AllPassed) =>
        /\ window_dts = <<TomorrowFirst>>
        /\ \A k \in 0..(Len(slots) - 1) :
              slots[k + 1] = strftime(astimezone_utc(CallZone, TomorrowFirst + k * 5 * 60))
        /\ SlotsReturned => Len(slots) = count

\* Two windows, both passed on 31 December, the later one listed first:
\* three slots or more from 1 January's occurrence of the first.
C17_Witness ==
    /\ SlotsReturned
    /\ AllPassed
    /\ Len(CallWindows) = 2
    /\ MinuteOfDay(CallWindows[1]) > MinuteOfDay(CallWindows[2])
    /\ count >= 3
    /\ date_of(TomorrowFirst) = Date(2025, 1, 1)
    /\ Len(slots) = count
    /\ InstantOf(slots[3]) = InstantOf(slots[1]) + 2 * 5 * 60

\* ---------------------------------------------------- add_stagger: claims
\* C18: add_stagger(t, m) adds m minutes to the timestamp t and nothing
\* else: the worked example, add_stagger(t, 0) = t, and calls in a row add
\* up, add_stagger(add_stagger(t, a), b) = add_stagger(t, a + b), over hour,
\* day, month and year boundaries.
C18_StaggerIsAddition ==
    /\ add_stagger(Stamp(Date(2024, 1, 1), 14, 0, 0), 30) = Stamp(Date(2024, 1, 1), 14, 30, 0)
    /\ add_stagger(utc_datetime_str, 0) = utc_datetime_str
    /\ utc_datetime_str = add_stagger(stagger_from, stagger_minutes)
    /\ InstantOf(utc_datetime_str) = InstantOf(stagger_from) + 60 * stagger_minutes
    /\ utc_datetime_str.second = stagger_from.second
    /\ utc_datetime_str.month \in 1..12
    /\ utc_datetime_str.day \in 1..DaysInMonth(utc_datetime_str.year, utc_datetime_str.month)
    /\ utc_datetime_str.hour \in 0..23
    /\ utc_datetime_str.minute \in 0..59

\* Two calls from 28 February 2024 23:45:30 that end on the leap day.
C18_Witness ==
    /\ stagger_from = Stamp(Date(2024, 2, 28), 23, 45, 30)
    /\ stagger_calls = <<30, 45>>
    /\ utc_datetime_str = Stamp(Date(2024, 2, 29), 1, 0, 30)

\* ---------------------------------------------------------------------
\* Claims about cmd_discover
\* ---------------------------------------------------------------------

\* The text is made of whitespace only (the empty text included).
OnlyWhitespace(text) == \A k \in 1..Len(text) : text[k].c \in Whitespace

\* An episode with no transcript and no text in its description.
NoContent(video) ==
    /\ video.transcript \in {None, Some(<<>>)}
    /\ OnlyWhitespace(video.description)

\* The video_ids an operation of the run was carried out for.
SummarisedIds == { llm_calls[k].video_id : k \in 1..Len(llm_calls) }
ThumbnailIds == { thumbnail_fetches[k] : k \in 1..Len(thumbnail_fetches) }
EpisodeIds == { r.video_id : r \in episodes }
PostIds == { posts[k].video_id : k \in 1..Len(posts) }

\* C19: in a discovery run an episode with no transcript and an empty or
\* whitespace-only description gets no language-model call, no thumbnail
\* download, no episode record and no post; the run is never inside the
\* processing of such an episode, it reports the skip and goes on to the
\* next episode (or to the end of the run after the last one).
C19_NoContentEpisodeIsSkipped ==
    d_pc # "idle" =>
      \A k \in 1..Len(unprocessed) :
        NoContent(unprocessed[k]) =>
          /\ unprocessed[k].video_id \notin SummarisedIds
          /\ unprocessed[k].video_id \notin ThumbnailIds
          /\ unprocessed[k].video_id \notin EpisodeIds
          /\ unprocessed[k].video_id \notin PostIds
          /\ (d_i = k - 1 => d_pc = "transcript")
          /\ (d_i >= k => handled[k] = "No content available, skipping")

\* A run of two episodes ended: the first had no transcript and a
\* description of blanks and was skipped, the second was summarised and its
\* post queued.
C19_Witness ==
    /\ d_pc = "done"
    /\ Len(unprocessed) = 2
    /\ unprocessed[1].transcript = None
    /\ unprocessed[1].description = Blank
    /\ handled = <<"No content available, skipping", "X post queued">>
    /\ SummarisedIds = {2}
    /\ ThumbnailIds = {2}
    /\ EpisodeIds = {2}
    /\ PostIds = {2}

\* C20: a discovery run always completes: no failure of a per-episode step
\* leaves the run, and at the end every unprocessed episode was attempted.
C20_RunAlwaysCompletes ==
    /\ d_pc # "raised"
    /\ d_pc = "done" => Len(handled) = Len(unprocessed)

\* --------------------------------------------------- chunker: termination

\* One pass of the loop body leaves a strictly shorter rest.
IterationShortens == c_pc = "cut" => StrLen(remaining') < StrLen(remaining)

\* The loop body runs only on a rest longer than the target size, and after
\* the loop the rest is no longer than it and, when not empty, is the last
\* chunk; there are no more chunks than the transcript has characters.
LoopStopsAtTarget ==
    /\ c_pc = "cut" => StrLen(remaining) > CHUNK_SIZE
    /\ (Returned /\ ~IsShort(transcript)) =>
          /\ StrLen(remaining) <= CHUNK_SIZE
          /\ remaining # <<>> => chunks[Len(chunks)] = remaining
          /\ remaining = <<>> =>
                StrLen(chunks[Len(chunks)]) = split_at
    /\ Len(chunks) <= StrLen(transcript) + 1
    /\ Returned => Len(chunks) <= (IF transcript = <<>> THEN 1 ELSE StrLen(transcript))

\* C27: the chunker terminates on every transcript: every pass of the loop
\* strictly shortens the remaining text, the loop stops as soon as the
\* remaining length is at most CHUNK_SIZE, the final remainder, when not
\* empty, is appended as the last chunk, and the number of chunks is bounded
\* by the transcript's length.
C27_ChunkerTerminates ==
    /\ <>Returned
    /\ [][IterationShortens]_vars
    /\ []LoopStopsAtTarget

\* A call that went three times through the loop, once without finding a
\* space, and whose last cut left exactly CHUNK_SIZE characters, which came
\* back as the last chunk.
C27_Witness ==
    /\ Returned
    /\ Len(chunks) >= 3
    /\ fallbacks >= 1
    /\ StrLen(remaining) = CHUNK_SIZE
    /\ chunks[Len(chunks)] = remaining

\* ------------------------------------------------ context formatter: claims

\* The header line of entry num.
SectionHeader(num) == "\n--- Section " \o ToString(num) \o " ---"

\* The header lines of a rendering of `total` entries, in the order they stand.
HeadersOf(text, total) ==
    SelectSeq(text, LAMBDA line : line \in { SectionHeader(k) : k \in 1..total })

\* A record of the Partial Summary shape: a field that is there is a string
\* (section_summary) or a list of strings (key_points, notable_quotes).
WellTyped(s) ==
    /\ get(s, "section_summary").kind \in {"str", "null"}
    /\ get(s, "key_points").kind \in {"list", "null"}
    /\ get(s, "notable_quotes").kind \in {"list", "null"}

\* The formatter applied to the first k accumulated partial summaries, as
\* the prompt of chunk k + 1 and the synthesis prompt apply it.
ContextOfFirst(k) == _format_previous_context(SubSeq(partial_summaries, 1, k))

\* The rendering has its title, one header per entry numbered 1..k in
\* order, and the closing empty line.
IsNumberedRendering(text, k) ==
    /\ Head(text) = "SUMMARIES FROM PREVIOUS SECTIONS:"
    /\ text[Len(text)] = ""
    /\ HeadersOf(text, k) = [j \in 1..k |-> SectionHeader(j)]

\* C24 as stated: the formatter returns the empty string for the empty list
\* and, for every non-empty list of accumulated partial summaries, a
\* rendering of every entry exactly once, in order, numbered 1..n.
C24_FormatterRendersEveryList ==
    \A k \in 0..Len(partial_summaries) :
        /\ ~ContextOfFirst(k).raised
        /\ k = 0 => ContextOfFirst(k).text = <<>>
        /\ k > 0 => IsNumberedRendering(ContextOfFirst(k).text, k)

\* What holds of C24 in the code: the empty list gives the empty string, and
\* a list of records of the Partial Summary shape is rendered entry by entry.
FormatterRendersWellTypedLists ==
    \A k \in 0..Len(partial_summaries) :
        (\A j \in 1..k : WellTyped(partial_summaries[j])) =>
            /\ ~ContextOfFirst(k).raised
            /\ k = 0 => ContextOfFirst(k).text = <<>>
            /\ k > 0 => IsNumberedRendering(ContextOfFirst(k).text, k)

\* ------------------------------------------- cmd_discover: further claims

\* The places of the log where a function was called.
CallsBy(name) == { k \in 1..Len(llm_calls) : llm_calls[k].by = name }

\* The calls of summarize_episode made for a video.
SummarisationsOf(id) ==
    { k \in CallsBy("summarize_episode") : llm_calls[k].video_id = id }

\* C25: post generation depends on the final summary (with the channel name
\* and the episode title) and not on the transcript: two episodes of the same
\* channel and title whose summaries are equal get the same post prompt,
\* whatever their transcripts; each post prompt follows the one summarisation
\* of its episode, and no episode is summarised twice.
C25_PostPromptDependsOnSummaryOnly ==
    /\ \A j, k \in CallsBy("generate_x_post") :
         llm_calls[j].summary = llm_calls[k].summary
            => llm_calls[j].prompt = llm_calls[k].prompt
    /\ \A k \in CallsBy("generate_x_post") :
         /\ Cardinality(SummarisationsOf(llm_calls[k].video_id)) = 1
         /\ \A j \in SummarisationsOf(llm_calls[k].video_id) : j < k
    /\ \A k \in CallsBy("summarize_episode") :
         Cardinality(SummarisationsOf(llm_calls[k].video_id)) = 1

\* A run over two episodes whose transcripts differ and whose summaries are
\* the same: both post prompts were built, and they are equal.
C25_Witness ==
    /\ d_pc = "done"
    /\ Len(llm_calls) = 4
    /\ llm_calls[2].by = "generate_x_post"
    /\ llm_calls[4].by = "generate_x_post"
    /\ llm_calls[2].transcript = SomeWords
    /\ llm_calls[4].transcript = strip(Padded)
    /\ llm_calls[2].summary = Some(FinalSparse)
    /\ llm_calls[4].summary = Some(FinalSparse)
    /\ llm_calls[2].prompt = llm_calls[4].prompt
    /\ llm_calls[2].prompt[1].transcript = <<"MAIN ARGUMENT:", "m2">>

\* The episodes of the run, by the way their iteration ended.
EndedWith(outcomes) == { k \in 1..Len(handled) : handled[k] \in outcomes }

\* C21 as stated: an episode whose processing failed at any step (no
\* content, summarisation failure, post-generation failure) is not recorded
\* as processed, so the filter of the next discovery run lets it through.
C21_FailedEpisodeStaysUnprocessed ==
    \A k \in EndedWith({"No content available, skipping",
                        "Summarisation failed, skipping",
                        "X post error"}) :
        ~is_episode_processed(episodes, unprocessed[k].video_id)

\* What holds of C21 in the code: an episode skipped for lack of content or
\* for a failed summarisation is not recorded.
SkippedEpisodeStaysUnprocessed ==
    \A k \in EndedWith({"No content available, skipping",
                        "Summarisation failed, skipping"}) :
        ~is_episode_processed(episodes, unprocessed[k].video_id)

\* ... and an episode whose post generation failed is recorded, with no
\* post, unless the run was a dry run.
PostFailureIsRecorded ==
    \A k \in EndedWith({"X post error"}) :
        /\ is_episode_processed(episodes, unprocessed[k].video_id) <=> ~dry_run
        /\ unprocessed[k].video_id \notin PostIds

\* ------------------------------------------------ reddit_poster: claims

\* The subreddit a name stands for: the name in lower case, without the
\* prefix "r/" when it has one.
Canon(name) ==
    IF startswith_r(lower(name)) THEN SubSeq(lower(name), 3, Len(name)) ELSE lower(name)

\* The subreddits the config lists with promo_allowed not false.
AllowList ==
    { Canon(subreddits_config[k].name) :
        k \in { j \in 1..Len(subreddits_config) : subreddits_config[j].promo_allowed # "false" } }

\* The suggested subreddits, in order.
SuggestedSubs == [k \in 1..Len(suggested_subreddits) |-> Canon(suggested_subreddits[k])]

\* The subreddits posted to, in order.
PostedSubs == [k \in 1..Len(submissions) |-> Canon(submissions[k])]

\* The suggested subreddits that are on the allow-list, in order.
AllowedSuggested == SelectSeq(SuggestedSubs, LAMBDA x : x \in AllowList)

\* C23 as stated: post_to_subreddits submits to at most 3 subreddits, each
\* of them suggested and on the allow-list with promo_allowed not false, in
\* the order of the suggestions; a suggested subreddit that is not on the
\* allow-list is never posted to.
C23_OnlyAllowedSuggestedSubreddits ==
    /\ Len(submissions) <= CAP
    /\ \A k \in 1..Len(PostedSubs) :
         /\ \E j \in 1..Len(SuggestedSubs) : SuggestedSubs[j] = PostedSubs[k]
         /\ PostedSubs[k] \in AllowList
    /\ rd_pc = "returned" =>
         /\ Len(PostedSubs) <= Len(AllowedSuggested)
         /\ PostedSubs = SubSeq(AllowedSuggested, 1, Len(PostedSubs))

\* What holds of C23 in the code: at most CAP submissions are made, one per
\* target and in the targets' order, and every target is a suggested name
\* (with "r/" put before it when it lacks it) whose key, the lower-case name
\* without its leading characters "r" and "/", is the key of an entry of the
\* config whose promo_allowed is true or not given.
SubmissionsFollowTargets ==
    /\ Len(targets) <= CAP
    /\ Len(submissions) = t_i
    /\ t_i <= Len(targets)
    /\ rd_pc = "returned" => t_i = Len(targets)
    /\ Len(urls) <= Len(submissions)
    /\ \A k \in 1..Len(submissions) : submissions[k] = CleanTarget(targets[k])
    /\ \A k \in 1..Len(targets) :
         /\ KeyOf(targets[k]) \in AllowedKeys(subreddits_config)
         /\ \E j \in 1..Len(suggested_subreddits) :
              targets[k] \in {suggested_subreddits[j], <<"r", "/">> \o suggested_subreddits[j]}

\* ----------------------------------------- discover, review and post runs
\* The calls of an adapter made for a post, as positions in the history.
AttemptsOf(id) == { k \in 1..Len(adapter_calls) : adapter_calls[k].id = id }

\* C22: over any sequence of discover, review and post runs, an adapter is
\* called for a post only while the post is approved and its scheduled_at is
\* not after the time of the call; no adapter was ever called for a post
\* that is pending or rejected; and a post saved with auto-approve off
\* starts as pending, one saved with it on as approved.
C22_AdaptersOnlyForApprovedDuePosts ==
    /\ [](\A k \in 1..Len(adapter_calls) :
            /\ adapter_calls[k].status = "approved"
            /\ StampLE(adapter_calls[k].scheduled_at, adapter_calls[k].at))
    /\ [](\A id \in 1..Len(posts) :
            posts[id].status \in {"pending", "rejected"} => AttemptsOf(id) = {})
    /\ [][Len(posts') > Len(posts) =>
            /\ Len(posts') = Len(posts) + 1
            /\ posts'[Len(posts')].status = IF auto_post THEN "approved" ELSE "pending"]_vars

\* A thread was published at the very second it was scheduled for, and
\* another run had left a post pending or rejected.
C22_Witness ==
    \E k \in 1..Len(adapter_calls) :
        /\ adapter_calls[k].platform = "x"
        /\ adapter_calls[k].scheduled_at = adapter_calls[k].at
        /\ adapter_calls[k].published = 2
        /\ posts[adapter_calls[k].id].status = "posted"

\* A discovery run is between its start and its end.
Discovering == d_pc \notin {"idle", "done", "raised"}

\* C26: no step of a discovery run with DRY_RUN=true changes the table of
\* episodes or the table of posts, whatever summarisation and post
\* generation return, and the episodes the run started with are still
\* unprocessed during and after it.
C26_DryRunWritesNothing ==
    /\ [][(dry_run /\ Discovering) => (episodes' = episodes /\ posts' = posts)]_vars
    /\ [](dry_run => \A k \in 1..Len(unprocessed) :
                        ~is_episode_processed(episodes, unprocessed[k].video_id))

\* A dry run on a database that is not empty went through summarisation and
\* post generation to its end.
C26_Witness ==
    /\ dry_run
    /\ d_pc = "done"
    /\ episodes # {}
    /\ \E k \in 1..Len(handled) : handled[k] = "[DRY_RUN] X thread"
    /\ \E k \in 1..Len(llm_calls) : llm_calls[k].by = "generate_x_post"

\* The moves of a status the model of database.py's docstring allows.
Moves ==
    { <<"pending", "approved">>, <<"pending", "rejected">>,
      <<"approved", "posted">>, <<"approved", "failed">> }

\* C28: over any sequence of discover, review and post runs no row of posts
\* disappears and a status changes only along Moves: away from pending only
\* in a review, away from approved only in a post run; a review leaves every
\* row that is not pending as it is, and all rows when the key is skip or
\* quit; a post run leaves every row that is not approved as it is.
C28_StatusMovesForward ==
    [][/\ Len(posts') >= Len(posts)
       /\ \A id \in 1..Len(posts) :
            /\ posts[id].status # posts'[id].status =>
                 /\ <<posts[id].status, posts'[id].status>> \in Moves
                 /\ (posts[id].status = "pending") => r_pc = "prompt"
                 /\ (posts[id].status = "approved") => p_pc = "posting"
            /\ (r_pc = "prompt" /\ posts[id].status # "pending") => posts'[id] = posts[id]
            /\ (p_pc = "posting" /\ posts[id].status # "approved") => posts'[id] = posts[id]
       /\ (r_pc = "prompt" /\ choice' \in {"s", "q"}) => posts' = posts]_vars

\* A review has approved a thread, next to a post another run had handled.
C28_Witness ==
    /\ r_pc = "done"
    /\ choice = "a"
    /\ \E id \in 1..Len(posts) : posts[id].platform = "x" /\ posts[id].status = "approved"
    /\ \E id \in 1..Len(posts) : posts[id].status \in {"posted", "failed"}

\* C29: publishing is attempted at most once per X post: once post_thread was
\* called for it, its status is posted or failed, and no second call is made.
C29_AtMostOneAttemptPerXPost ==
    \A id \in 1..Len(posts) :
        posts[id].platform = "x" =>
            /\ Cardinality(AttemptsOf(id)) <= 1
            /\ AttemptsOf(id) # {} => posts[id].status \in {"posted", "failed"}

\* A post that is posted or failed is not taken by a later run: every call
\* made for it found it approved, and none comes after its status was set.
HandledPostIsNotSelected ==
    [][\A id \in 1..Len(posts) :
          posts[id].status \in {"posted", "failed"} => AttemptsOf(id)' = AttemptsOf(id)]_vars

\* C30: a post is posted only if a call of its adapter published something of
\* it, and a post that is failed has nothing of it published.
C30_PostedOnlyIfPublished ==
    \A id \in 1..Len(posts) :
        /\ posts[id].status = "posted" =>
             \E k \in AttemptsOf(id) : adapter_calls[k].published > 0
        /\ posts[id].status = "failed" =>
             \A k \in AttemptsOf(id) : adapter_calls[k].published = 0

\* A thread with tweets that is posted was published whole, and its row
\* carries the URL post_thread returned.
PostedThreadHasUrl ==
    \A id \in 1..Len(posts) :
        (/\ posts[id].platform = "x"
         /\ posts[id].status = "posted"
         /\ posts[id].content.tweets.val # <<>>) =>
            /\ posts[id].post_url # None
            /\ \E k \in AttemptsOf(id) :
                 adapter_calls[k].published = Len(posts[id].content.tweets.val)
====
